---- MODULE Spec2Model ----
(***************************************************************************)
(* Asynchronous job pipeline of doc-QA-system (py-services).                *)
(*                                                                         *)
(* State: the Redis job store ("task:<id>" records and the per-document    *)
(* id sets), the Celery queue, the workers running a job handler, and the  *)
(* callback notifications posted by update_task_status (the latest one and *)
(* how many were posted and delivered), the API process creating a job in  *)
(* three separate steps (SET record, SADD index, send to queue), the       *)
(* availability of the store and of the callback endpoint, and the worker  *)
(* pool (Concurrency processes in Spec, all of Workers in SpecPool).       *)
(*                                                                         *)
(* Two executor implementations exist in the repository and both are       *)
(* modelled: the Celery task functions of app/worker/tasks.py (impl        *)
(* "tasks") and DocumentProcessor of app/worker/processor.py (impl         *)
(* "processor").  A handler is modelled step by step, one step per store   *)
(* write or blocking capability call, because every write is visible to    *)
(* readers and to the other writers of the store.                          *)
(*                                                                         *)
(* SpecSweep runs cleanup_expired_tasks over stores of aged records,       *)
(* SpecQuery runs the handlers over stores holding records, nothing or     *)
(* undecodable values, and SpecSplit is the text splitter of               *)
(* app/chunkers (TextSplitter.split) called once on each text, split type  *)
(* and configuration of a bounded family; its call is kept in the variable *)
(* splitter, which the pipeline leaves alone.  SpecMerge is the merge of   *)
(* the semantic splitter (app/chunkers/semantic_splitter.py) in the same   *)
(* variable.  SpecRetry is the retry decorator of app/utils/utils.py       *)
(* (variable retrier), SpecStream one stream of POST /rag/stream with its  *)
(* cancellation flag (variable stream), and SpecNotify update_task_status  *)
(* followed statement by statement for the invocations that hold one job   *)
(* (variable notifier).                                                    *)
(***************************************************************************)
EXTENDS Integers, Sequences, FiniteSets, TLC

\* ---------------------------------------------------------------- bounds
NumWorkers == 2
Concurrency == 1
NumDocs == 1
MaxSec == 0
MaxCreatedDay == 0
MaxNow == 8
MaxCreates == 2
MaxJobs == 1
MaxEvents == 2
MaxCrashes == 1
MaxInbound == 1
MaxOffset == 8
LateHour == 20
MaxSwept == 2
MaxParts == 3
SmallChunkSize == 8
MidChunkSize == 11
LargeChunkSize == 24
SmallOverlap == 3
SmallMinChunkSize == 4
MaxChunks == 4
MaxNorm == 5
MaxRetries == 3
MaxIncrements == 3
MaxCancelRequests == 1
NumCallers == 2

\* ------------------------------------------------------ program constants
RetentionDays == 7

\* Clock readings are counted in hours: the offsets of the time zones are
\* whole hours, and retention_seconds = retention_days * 24 * 60 * 60.
HoursPerDay == 24

RetentionHours == RetentionDays * HoursPerDay

\* SplitConfig.min_chunk_size and SplitConfig.min_chunk_length_to_embed.
DefaultMinChunkSize == 50

MinChunkLengthToEmbed == 10

\* The quality below which _post_process_chunks drops a chunk, in
\* thousandths: round(quality, 2) < 0.2 is quality < 0.195.
MinQuality == 195

\* The window of find_best_split_point.
Window == 100

\* retry(max_retries = 3, delay = 1, backoff = 2, exceptions = (Exception,))
DefaultDelay == 1
DefaultBackoff == 2
Backoffs == {1, DefaultBackoff}

\* ------------------------------------------------------------ value sets
Workers == 1..NumWorkers
Docs == 1..NumDocs

\* The empty document id "", which the request models accept
\* (document_id: str).
EmptyDoc == 0
Secs == 0..MaxSec
CreatedDays == 0..MaxCreatedDay
SweepTimes == {d * HoursPerDay : d \in RetentionDays..MaxNow}

TaskType == {"document_parse", "text_chunk", "vectorize", "process_complete"}

TaskStatus == {"pending", "processing", "completed", "failed"}

Terminal == {"completed", "failed"}

Impls == {"tasks", "processor"}

\* A job id as the producer builds it: "<kind>_<unix second>_<document id>".
Ids == TaskType \X Secs \X Docs

NoId == <<"none", 0, 0>>

\* What the payload of a stored record can look like to the validation code
\* of the handlers.  Records are JSON written by any producer sharing the
\* store, so the payload is not necessarily the dict the Python API builds.
\*   valid              every field of the payload dataclass, well formed
\*   not_dict           the payload is not a JSON object
\*   missing_key        a field both implementations require is missing
\*   dataclass_mismatch a field only the dataclass constructor requires is
\*                      missing (file_name, chunk_size, model, ...) or an
\*                      unknown field is present
\*   bad_number         chunk_size / overlap is not convertible by int()
\*   chunk_no_text      a chunk dict without the key "text"
\*   chunk_not_dict     a chunk that is neither a dict nor has .text
\*   empty_chunks       chunks is the empty list
PayloadsOf(type) ==
    {"valid", "not_dict", "missing_key", "dataclass_mismatch"}
    \cup (IF type \in {"text_chunk", "process_complete"} THEN {"bad_number"} ELSE {})
    \cup (IF type = "vectorize"
          THEN {"chunk_no_text", "chunk_not_dict", "empty_chunks"} ELSE {})

\* --------------------------------------------------------------- results
\* Task.result.  "None" is Python's None (the default of the result
\* parameter of update_task_status), "empty" the default {} of a new Task.
Res(kind, ps, cs, vs, err) ==
    [kind |-> kind, parse_status |-> ps, chunk_status |-> cs,
     vector_status |-> vs, error |-> err]

NoneResult == Res("None", "", "", "", "")

EmptyResult == Res("empty", "", "", "", "")

ParseResult == Res("parse", "", "", "", "")

ChunkResult == Res("chunk", "", "", "", "")

VectorResult == Res("vector", "", "", "", "")

CallbackResult == Res("callback", "", "", "", "")

\* ProcessCompleteResult as process_document creates it.
PendingPipeline == Res("pipeline", "pending", "pending", "pending", "")

\* --------------------------------------------------------------- records
NoTask == [absent |-> TRUE]

\* The value under a key that Task.from_json cannot turn into a Task: no
\* JSON, an unknown status or type, an unknown or missing field.
Garbled == [undecodable |-> TRUE]

\* An exception that leaves get_task_from_redis.
Raised == [raised |-> TRUE]

\* started_at / completed_at of a job that has not started / not ended: None.
\* A set timestamp is the reading of the clock, 1 or later.
NoStamp == 0

\* A created_at as it is stored: an ISO 8601 text, that is the reading of a
\* wall clock and the zone the text names.  tz is "naive" (no zone: what
\* Task.to_json writes for datetime.now()), "Z", or "offset" with the UTC
\* offset in hours.
Stamp(wall, tz, offset) == [wall |-> wall, tz |-> tz, offset |-> offset]

NewTask(id, type, doc, payload, day) ==
    [id |-> id, type |-> type, document_id |-> doc, status |-> "pending",
     payload |-> payload, result |-> EmptyResult, error |-> "",
     created_at |-> Stamp(day * HoursPerDay, "naive", 0),
     started_at |-> NoStamp, completed_at |-> NoStamp,
     attempts |-> 0, max_retries |-> 3]

\* The first message of every except-branch of a handler.
HandlerPrefix(impl, type) ==
    CASE type = "document_parse" -> "Document parse failed"
      [] type = "text_chunk" -> "Text chunking failed"
      [] type = "vectorize" -> "Text vectorization failed"
      [] type = "process_complete" ->
            IF impl = "tasks" THEN "Document processing failed"
            ELSE "Complete document processing failed"

\* The stage an error text names, "" when it names none.
StageNamed(err) ==
    CASE err \in {"Parse failed", "Document parse failed"} -> "parse"
      [] err \in {"Chunking failed", "Text chunking failed"} -> "chunk"
      [] err \in {"Vectorization failed", "Text vectorization failed"} -> "embed"
      [] OTHER -> ""

\* Whether the validation code of the handler raises for this payload,
\* before the capability is called.
Invalid(impl, type, payload) ==
    \/ payload \in {"not_dict", "missing_key", "chunk_not_dict"}
    \/ impl = "tasks" /\ payload \in {"dataclass_mismatch", "chunk_no_text"}
    \/ impl = "processor" /\ payload \in {"bad_number", "empty_chunks"}

FirstStage(type) ==
    CASE type = "text_chunk" -> "chunk"
      [] type = "vectorize" -> "embed"
      [] OTHER -> "parse"

VARIABLES store, docIndex, queue, workers, lastCallback, posted, delivered,
          storeUp, endpointUp, producer, creates, crashes, inbound, splitter,
          retrier, stream, notifier

vars == <<store, docIndex, queue, workers, lastCallback, posted, delivered,
          storeUp, endpointUp, producer, creates, crashes, inbound, splitter, retrier, stream, notifier>>

\* The variables of the job pipeline.
pipeline == <<store, docIndex, queue, workers, lastCallback, posted, delivered,
              storeUp, endpointUp, producer, creates, crashes, inbound>>

\* No call of TextSplitter.split under way.
NoSplit == [pc |-> "none"]

\* No call of a function wrapped by retry under way.
NoRetry == [pc |-> "none"]

\* No streaming generation under way.
NoStream == [pc |-> "none"]

\* No call of update_task_status followed step by step.
NoUpdates == [pc |-> "none"]

NoCallback == [absent |-> TRUE]

\* The API process between two creation requests.
NoRequest == [pc |-> "idle", id |-> NoId]

IdleWorker ==
    [pc |-> "idle", id |-> NoId, impl |-> "tasks", task |-> NoTask,
     pre |-> NoTask, res |-> NoneResult, calls |-> <<>>, upd |-> "none",
     ret |-> "none"]

Init ==
    /\ store = [i \in Ids |-> NoTask]
    /\ docIndex = [d \in Docs |-> {}]
    /\ queue = [i \in Ids |-> 0]
    /\ workers = [w \in Workers |-> IdleWorker]
    /\ lastCallback = NoCallback
    /\ posted = 0
    /\ delivered = 0
    /\ storeUp = TRUE
    /\ endpointUp = TRUE
    /\ producer = NoRequest
    /\ creates = 0
    /\ crashes = 0
    /\ inbound = 0
    /\ splitter = NoSplit
    /\ retrier = NoRetry
    /\ stream = NoStream
    /\ notifier = NoUpdates

\* ------------------------------------------------------------ the store
\* datetime.now() as update_task_status reads it.  Timestamps are only
\* compared with each other, so a reading is represented by the least value
\* later than every timestamp still held by a stored record or by the Task
\* object of a running handler.
StampsOf(task) ==
    IF task \in {NoTask, Garbled} THEN {} ELSE {task.started_at, task.completed_at}

AllStamps ==
    UNION {StampsOf(store[i]) : i \in Ids}
    \cup UNION {StampsOf(workers[w].task) \cup StampsOf(workers[w].pre) : w \in Workers}

Now == 1 + (CHOOSE m \in AllStamps \cup {NoStamp} :
                \A x \in AllStamps \cup {NoStamp} : x <= m)

\* update_task_status, the part that changes the Task object.
UpdatedTask(task, status, result, error) ==
    [task EXCEPT !.status = status,
                 !.started_at = IF status = "processing" /\ @ = NoStamp
                                THEN Now ELSE @,
                 !.completed_at = IF status \in {"completed", "failed"}
                                  THEN Now ELSE @,
                 !.result = IF result = NoneResult THEN @ ELSE result,
                 !.error = IF error = "" THEN @ ELSE error]

\* The notification update_task_status posts after a successful write.
CallbackData(task) ==
    [task_id |-> task.id, document_id |-> task.document_id,
     status |-> task.status, type |-> task.type,
     result |-> task.result, error |-> task.error]

\* WriteTask, with the notification sent for terminal states only: the
\* transition to processing is written without a callback.
WriteTaskTerminalOnly(task) ==
    /\ store' = IF storeUp THEN [store EXCEPT ![task.id] = task] ELSE store
    /\ lastCallback' = IF storeUp /\ task.status \in {"completed", "failed"}
                       THEN CallbackData(task) ELSE lastCallback
    /\ posted' = IF storeUp /\ task.status \in {"completed", "failed"}
                 THEN posted + 1 ELSE posted
    /\ delivered' = IF storeUp /\ endpointUp /\ task.status \in {"completed", "failed"}
                    THEN delivered + 1 ELSE delivered

\* WriteTask, with the callback sent before the record is written and its
\* failure not caught: when the endpoint does not answer, update_task_status
\* ends in its outer except branch and the record is not written.
WriteTaskNotifyFirst(task) ==
    /\ store' = IF storeUp /\ endpointUp THEN [store EXCEPT ![task.id] = task] ELSE store
    /\ lastCallback' = IF storeUp THEN CallbackData(task) ELSE lastCallback
    /\ posted' = IF storeUp THEN posted + 1 ELSE posted
    /\ delivered' = IF storeUp /\ endpointUp THEN delivered + 1 ELSE delivered

\* update_task_status, the write and the notification: the whole Task object
\* is written under its key, then the callback is posted (send_callback); when
\* the store raises, neither happens.  A notification the endpoint does not
\* accept (no connection, timeout, HTTP status >= 400) is logged by
\* send_callback and is not delivered.
WriteTask(task) ==
    /\ store' = IF storeUp THEN [store EXCEPT ![task.id] = task] ELSE store
    /\ lastCallback' = IF storeUp THEN CallbackData(task) ELSE lastCallback
    /\ posted' = IF storeUp THEN posted + 1 ELSE posted
    /\ delivered' = IF storeUp /\ endpointUp THEN delivered + 1 ELSE delivered

\* The value update_task_status returns: True after the write, False when
\* the store raised.
UpdateReturns == IF storeUp THEN "true" ELSE "false"

\* What client.get and Task.from_json do for the key of job id.
Fetch(id) ==
    CASE ~storeUp -> "redis_error"
      [] store[id] = NoTask -> "missing"
      [] store[id] = Garbled -> "decode_error"
      [] OTHER -> "ok"

\* get_task_from_redis, without its except branches: the error of the store
\* and the error of Task.from_json leave the function.
GetTaskUncaught(id) ==
    CASE Fetch(id) = "ok" -> store[id]
      [] Fetch(id) = "missing" -> NoTask
      [] OTHER -> Raised

\* get_task_from_redis: the record, or None when the key is missing
\* (if not data), when the store raises (except RedisError) or when the
\* value cannot be decoded (except Exception).
GetTask(id) == IF Fetch(id) = "ok" THEN store[id] ELSE NoTask


\* ------------------------------------------------------------- producer
\* The ids of the job records in the store.
StoredIds == {i \in Ids : store[i] # NoTask}

\* create_parse_task / create_chunk_task / create_vectorize_task /
\* create_process_task, up to the SET: build the id from the kind, the
\* current second and the document id and SET the record under its key.
\* When the store raises, the request fails (HTTP 500) with nothing stored.
\* One request is handled at a time (the handlers are coroutines without an
\* await between their Redis calls).
CreateTask(type, sec, doc, payload, day) ==
    /\ producer = NoRequest
    /\ creates < MaxCreates
    /\ creates + crashes + inbound < MaxEvents
    /\ Cardinality(StoredIds \cup {<<type, sec, doc>>}) <= MaxJobs
    /\ creates' = creates + 1
    /\ LET id == <<type, sec, doc>> IN
       IF storeUp
       THEN /\ store' = [store EXCEPT ![id] = NewTask(id, type, doc, payload, day)]
            /\ producer' = [pc |-> "sadd", id |-> id]
       ELSE UNCHANGED <<store, producer>>
    /\ UNCHANGED <<docIndex, queue, workers, lastCallback, posted, delivered,
                   storeUp, endpointUp, crashes, inbound, splitter, retrier, stream, notifier>>

\* The second Redis command of the request: SADD the id to the set of the
\* document.  When it raises, the request fails and the record stays.
AddToDocumentSet ==
    /\ producer.pc = "sadd"
    /\ IF storeUp
       THEN /\ docIndex' = [docIndex EXCEPT ![producer.id[3]] = @ \cup {producer.id}]
            /\ producer' = [producer EXCEPT !.pc = "send"]
       ELSE /\ producer' = NoRequest
            /\ UNCHANGED docIndex
    /\ UNCHANGED <<store, queue, workers, lastCallback, posted, delivered,
                   storeUp, endpointUp, creates, crashes, inbound, splitter, retrier, stream, notifier>>

\* The last step of the request: <handler>.delay(task_id).  The broker is
\* the same Redis server: when it raises, the request fails and the record
\* and its index entry stay.
SendToQueue ==
    /\ producer.pc = "send"
    /\ queue' = IF storeUp THEN [queue EXCEPT ![producer.id] = @ + 1] ELSE queue
    /\ producer' = NoRequest
    /\ UNCHANGED <<store, docIndex, workers, lastCallback, posted, delivered,
                   storeUp, endpointUp, creates, crashes, inbound, splitter, retrier, stream, notifier>>

\* The API process dies between two steps of a request.
ProducerCrash ==
    /\ producer # NoRequest
    /\ producer' = NoRequest
    /\ UNCHANGED <<store, docIndex, queue, workers, lastCallback, posted, delivered,
                   storeUp, endpointUp, creates, crashes, inbound, splitter, retrier, stream, notifier>>

\* ------------------------------------------------------------- executor
\* Deliver, with a handler that records the failure of a job it did not
\* find: it writes a failed record under the id.
DeliverWritesMissing(w, id, impl) ==
    /\ workers[w].pc = "idle"
    /\ \A v \in 1..(w - 1) : workers[v].pc # "idle"
    /\ queue[id] > 0
    /\ queue' = [queue EXCEPT ![id] = @ - 1]
    /\ LET task == GetTask(id) IN
       IF task = NoTask
       THEN /\ workers' = [workers EXCEPT ![w] =
                  [IdleWorker EXCEPT !.pc = "returned", !.id = id, !.impl = impl,
                                     !.ret = "false"]]
            /\ WriteTask(UpdatedTask(NewTask(id, id[1], id[3], "valid", 0),
                                     "failed", NoneResult, "Task not found"))
       ELSE /\ workers' = [workers EXCEPT ![w] =
                  [IdleWorker EXCEPT !.pc = "loaded", !.id = id, !.impl = impl,
                                     !.task = task, !.pre = task]]
            /\ UNCHANGED <<store, lastCallback, posted, delivered>>
    /\ UNCHANGED <<docIndex, storeUp, endpointUp, producer, creates, crashes, inbound, splitter, retrier, stream, notifier>>

\* The head of every handler (parse_document, chunk_text, vectorize_text,
\* process_document, process_task): a queue message reaches a worker, the
\* record is loaded, and a missing record ends the invocation with False.
\* The call of get_task_from_redis is outside the try block of the handler:
\* an exception leaving it would leave the handler.
\* The pool processes are interchangeable: the message goes to the first
\* idle one.
Deliver(w, id, impl) ==
    /\ workers[w].pc = "idle"
    /\ \A v \in 1..(w - 1) : workers[v].pc # "idle"
    /\ queue[id] > 0
    /\ queue' = [queue EXCEPT ![id] = @ - 1]
    /\ LET task == GetTask(id) IN
       workers' = [workers EXCEPT ![w] =
           IF task = Raised
           THEN [IdleWorker EXCEPT !.pc = "returned", !.id = id, !.impl = impl,
                                   !.ret = "raised"]
           ELSE IF task = NoTask
           THEN [IdleWorker EXCEPT !.pc = "returned", !.id = id, !.impl = impl,
                                   !.ret = "false"]
           ELSE [IdleWorker EXCEPT !.pc = "loaded", !.id = id, !.impl = impl,
                                   !.task = task, !.pre = task]]
    /\ UNCHANGED <<store, docIndex, lastCallback, posted, delivered, storeUp, endpointUp, producer, creates, crashes, inbound, splitter, retrier, stream, notifier>>

\* update_task_status(task, TaskStatus.PROCESSING), the first statement of
\* every handler after the load.
MarkProcessing(w) ==
    /\ workers[w].pc = "loaded"
    /\ LET task == UpdatedTask(workers[w].task, "processing", NoneResult, "") IN
       /\ WriteTask(task)
       /\ workers' = [workers EXCEPT ![w].task = task, ![w].pc = "validate",
                                     ![w].upd = UpdateReturns]
    /\ UNCHANGED <<docIndex, queue, storeUp, endpointUp, producer, creates, crashes, inbound, splitter, retrier, stream, notifier>>

\* Finish, with except branches that log the error and return without
\* update_task_status.
FinishLogsFailure(w, status, result, error, ret, calls) ==
    LET task == UpdatedTask(workers[w].task, status, result, error) IN
    /\ IF status = "failed"
       THEN UNCHANGED <<store, lastCallback, posted, delivered>>
       ELSE WriteTask(task)
    /\ workers' = [workers EXCEPT ![w].task = task, ![w].pc = "returned",
                                  ![w].ret = ret, ![w].calls = calls,
                                  ![w].upd = UpdateReturns,
                                  ![w].res = IF result = NoneResult THEN @ ELSE result]
    /\ UNCHANGED <<docIndex, queue, storeUp, endpointUp, producer, creates, crashes, inbound, splitter, retrier, stream, notifier>>

\* The last update_task_status of a handler and its return statement.
Finish(w, status, result, error, ret, calls) ==
    LET task == UpdatedTask(workers[w].task, status, result, error) IN
    /\ WriteTask(task)
    /\ workers' = [workers EXCEPT ![w].task = task, ![w].pc = "returned",
                                  ![w].ret = ret, ![w].calls = calls,
                                  ![w].upd = UpdateReturns,
                                  ![w].res = IF result = NoneResult THEN @ ELSE result]
    /\ UNCHANGED <<docIndex, queue, storeUp, endpointUp, producer, creates, crashes, inbound, splitter, retrier, stream, notifier>>

\* A stage succeeded and the handler goes on to the next one.
Advance(w, pc, res, calls) ==
    /\ workers' = [workers EXCEPT ![w].pc = pc, ![w].res = res, ![w].calls = calls]
    /\ UNCHANGED <<store, docIndex, queue, lastCallback, posted, delivered, storeUp, endpointUp, producer, creates, crashes, inbound, splitter, retrier, stream, notifier>>

\* One call of a capability: the stage and whether it returned.
Call(stage, outcome) == [stage |-> stage, ok |-> outcome # "raise"]

\* Validate, with the payload checks placed after the capability call.
ValidateAfterCall(w) ==
    /\ workers[w].pc = "validate"
    /\ LET me == workers[w]
           type == me.task.type IN
       IF Invalid(me.impl, type, me.task.payload)
       THEN Finish(w, "failed", NoneResult, HandlerPrefix(me.impl, type), "false",
                   Append(me.calls, Call(FirstStage(type), "ok")))
       ELSE Advance(w, FirstStage(type),
                    IF type = "process_complete" /\ me.impl = "tasks"
                    THEN PendingPipeline ELSE me.res,
                    me.calls)

\* The payload checks at the head of the try block.  A payload the checks
\* reject raises into the handler's except branch.
Validate(w) ==
    /\ workers[w].pc = "validate"
    /\ LET me == workers[w]
           type == me.task.type IN
       IF Invalid(me.impl, type, me.task.payload)
       THEN Finish(w, "failed", NoneResult, HandlerPrefix(me.impl, type), "false", me.calls)
       ELSE Advance(w, FirstStage(type),
                    IF type = "process_complete" /\ me.impl = "tasks"
                    THEN PendingPipeline ELSE me.res,
                    me.calls)

\* StageParse, with the return statement missing from the except branch of
\* the parse stage of process_document: the handler goes on to chunk.
StageParseFallsThrough(w, outcome) ==
    /\ workers[w].pc = "parse"
    /\ LET me == workers[w]
           type == me.task.type
           calls == Append(me.calls, Call("parse", outcome)) IN
       IF type = "document_parse"
       THEN IF outcome = "ok"
            THEN Finish(w, "completed", ParseResult, "", "true", calls)
            ELSE Finish(w, "failed", NoneResult, HandlerPrefix(me.impl, type), "false", calls)
       ELSE IF me.impl = "tasks"
       THEN IF outcome = "ok"
            THEN Advance(w, "chunk", [me.res EXCEPT !.parse_status = "completed"], calls)
            ELSE Advance(w, "chunk", [me.res EXCEPT !.parse_status = "failed",
                                                    !.error = "Parse failed"], calls)
       ELSE IF outcome = "ok"
            THEN Advance(w, "chunk", me.res, calls)
            ELSE Finish(w, "failed", NoneResult, HandlerPrefix(me.impl, type), "false", calls)

\* create_parser + parser.parse + extract_title + get_metadata.
StageParse(w, outcome) ==
    /\ workers[w].pc = "parse"
    /\ LET me == workers[w]
           type == me.task.type
           calls == Append(me.calls, Call("parse", outcome)) IN
       IF type = "document_parse"
       THEN IF outcome = "ok"
            THEN Finish(w, "completed", ParseResult, "", "true", calls)
            ELSE Finish(w, "failed", NoneResult, HandlerPrefix(me.impl, type), "false", calls)
       ELSE IF me.impl = "tasks"
       THEN IF outcome = "ok"
            THEN Advance(w, "chunk", [me.res EXCEPT !.parse_status = "completed"], calls)
            ELSE LET res == [me.res EXCEPT !.parse_status = "failed",
                                           !.error = "Parse failed"] IN
                 Finish(w, "failed", res, res.error, "false", calls)
       ELSE IF outcome = "ok"
            THEN Advance(w, "chunk", me.res, calls)
            ELSE Finish(w, "failed", NoneResult, HandlerPrefix(me.impl, type), "false", calls)

\* split_text.
StageChunk(w, outcome) ==
    /\ workers[w].pc = "chunk"
    /\ LET me == workers[w]
           type == me.task.type
           calls == Append(me.calls, Call("chunk", outcome)) IN
       IF type = "text_chunk"
       THEN IF outcome # "raise"
            THEN Finish(w, "completed", ChunkResult, "", "true", calls)
            ELSE Finish(w, "failed", NoneResult, HandlerPrefix(me.impl, type), "false", calls)
       ELSE IF me.impl = "tasks"
       THEN IF outcome # "raise"
            THEN Advance(w, "embed", [me.res EXCEPT !.chunk_status = "completed"], calls)
            ELSE LET res == [me.res EXCEPT !.chunk_status = "failed",
                                           !.error = "Chunking failed"] IN
                 Finish(w, "failed", res, res.error, "false", calls)
       ELSE CASE outcome = "ok" -> Advance(w, "embed", me.res, calls)
              [] outcome = "empty" ->
                    Finish(w, "completed",
                           Res("pipeline", "success", "success", "skipped", ""),
                           "", "true", calls)
              [] OTHER ->
                    Finish(w, "failed", NoneResult, HandlerPrefix(me.impl, type), "false", calls)

\* StageEmbed, with vectorize_text calling embed_batch outside its try
\* block: the exception leaves the handler.
StageEmbedEscapes(w, outcome) ==
    /\ workers[w].pc = "embed"
    /\ LET me == workers[w]
           type == me.task.type
           calls == Append(me.calls, Call("embed", outcome)) IN
       IF type = "vectorize"
       THEN IF outcome = "ok"
            THEN Finish(w, "completed", VectorResult, "", "true", calls)
            ELSE /\ workers' = [workers EXCEPT ![w].pc = "returned",
                                              ![w].ret = "raised", ![w].calls = calls]
                 /\ UNCHANGED <<store, docIndex, queue, lastCallback, posted, delivered,
                                storeUp, endpointUp, producer, creates, crashes, inbound, splitter, retrier, stream, notifier>>
       ELSE IF me.impl = "tasks"
       THEN IF outcome = "ok"
            THEN Finish(w, "completed", [me.res EXCEPT !.vector_status = "completed"],
                        "", "true", calls)
            ELSE Finish(w, "completed",
                        [me.res EXCEPT !.vector_status = "failed",
                                       !.error = "Vectorization failed"],
                        "", "true", calls)
       ELSE IF outcome = "ok"
            THEN Finish(w, "completed",
                        Res("pipeline", "success", "success", "success", ""),
                        "", "true", calls)
            ELSE Finish(w, "failed", NoneResult, HandlerPrefix(me.impl, type), "false", calls)

\* embedder.embed_batch.
StageEmbed(w, outcome) ==
    /\ workers[w].pc = "embed"
    /\ LET me == workers[w]
           type == me.task.type
           calls == Append(me.calls, Call("embed", outcome)) IN
       IF type = "vectorize"
       THEN IF outcome = "ok"
            THEN Finish(w, "completed", VectorResult, "", "true", calls)
            ELSE Finish(w, "failed", NoneResult, HandlerPrefix(me.impl, type), "false", calls)
       ELSE IF me.impl = "tasks"
       THEN IF outcome = "ok"
            THEN Finish(w, "completed", [me.res EXCEPT !.vector_status = "completed"],
                        "", "true", calls)
            ELSE Finish(w, "completed",
                        [me.res EXCEPT !.vector_status = "failed",
                                       !.error = "Vectorization failed"],
                        "", "true", calls)
       ELSE IF outcome = "ok"
            THEN Finish(w, "completed",
                        Res("pipeline", "success", "success", "success", ""),
                        "", "true", calls)
            ELSE Finish(w, "failed", NoneResult, HandlerPrefix(me.impl, type), "false", calls)

\* ---------------------------------------------------------------- queue
\* task_acks_late: the message is acknowledged once the handler returned.
Ack(w) ==
    /\ workers[w].pc = "returned"
    /\ workers' = [workers EXCEPT ![w] = IdleWorker]
    /\ UNCHANGED <<store, docIndex, queue, lastCallback, posted, delivered, storeUp, endpointUp, producer, creates, crashes, inbound, splitter, retrier, stream, notifier>>

\* Crash, with early acknowledgment (task_acks_late off): the message was
\* acknowledged on delivery and is lost with the worker process.
CrashLosesMessage(w) ==
    /\ workers[w].pc # "idle"
    /\ crashes < MaxCrashes
    /\ creates + crashes + inbound < MaxEvents
    /\ crashes' = crashes + 1
    /\ workers' = [workers EXCEPT ![w] = IdleWorker]
    /\ UNCHANGED <<store, docIndex, queue, lastCallback, posted, delivered, storeUp,
                   endpointUp, producer, creates, inbound, splitter, retrier, stream, notifier>>

\* task_reject_on_worker_lost: the worker process dies before the
\* acknowledgment and the message goes back to the queue.
Crash(w) ==
    /\ workers[w].pc # "idle"
    /\ crashes < MaxCrashes
    /\ creates + crashes + inbound < MaxEvents
    /\ crashes' = crashes + 1
    /\ queue' = [queue EXCEPT ![workers[w].id] = @ + 1]
    /\ workers' = [workers EXCEPT ![w] = IdleWorker]
    /\ UNCHANGED <<store, docIndex, lastCallback, posted, delivered, storeUp, endpointUp, producer, creates, inbound, splitter, retrier, stream, notifier>>

\* ------------------------------------------------------ inbound callback
\* POST /api/callback/: a status update for a job, written with
\* update_task_status.  A missing record or an unknown status value is
\* answered with success = False and nothing is written.
HandleCallback(id, status, result, error) ==
    /\ inbound < MaxInbound
    /\ creates + crashes + inbound < MaxEvents
    /\ inbound' = inbound + 1
    /\ LET task == GetTask(id) IN
       IF task = NoTask \/ status \notin TaskStatus
       THEN UNCHANGED <<store, lastCallback, posted, delivered>>
       ELSE WriteTask(UpdatedTask(task, status, result, error))
    /\ UNCHANGED <<docIndex, queue, workers, storeUp, endpointUp, producer, creates, crashes, splitter, retrier, stream, notifier>>

\* ------------------------------------------------------------- retention
\* The UTC offsets a stored timestamp or the host of the sweeper can have.
Offsets == {0 - MaxOffset, 0, MaxOffset}

\* The offset of an aware datetime: 'Z' is replaced by '+00:00' before
\* datetime.fromisoformat.
UtcOffset(stamp) == IF stamp.tz = "Z" THEN 0 ELSE stamp.offset

\* created_at < cutoff_time as Python compares two datetimes the loop made
\* both naive or both aware: naive ones by their wall clock readings, aware
\* ones by their instants.
Earlier(a, b) ==
    IF a.tz = "naive" THEN a.wall < b.wall
    ELSE a.wall - UtcOffset(a) < b.wall - UtcOffset(b)

\* get_task_key: the key of a job id.  An id that starts with "task:" is
\* its own key.
TaskKey(id) == IF id[1] = "task:" THEN id ELSE <<"task:">> \o id

\* key_str[len(task_prefix):], the job id the sweeper takes from a key.
KeyId(key) == Tail(key)

\* A record written without created_at, and a created_at that
\* datetime.fromisoformat rejects.
MissingStamp == [wall |-> 0, tz |-> "missing", offset |-> 0]

MalformedStamp == [wall |-> 0, tz |-> "malformed", offset |-> 0]

\* The values the loop of the sweeper leaves alone: one that json.loads
\* rejects (the except branch of the key), a record without created_at, and
\* a created_at that cannot be parsed (the except branch of the time).
Unreadable(task) ==
    \/ task = Garbled
    \/ task.created_at.tz \in {"missing", "malformed"}

\* cleanup_expired_tasks, the body of the loop for the scanned key of slot
\* id, with the cutoff_time, the store and the document sets the earlier
\* keys left.  cutoff_time takes over the zone of the first aware created_at
\* (replace(tzinfo=...) keeps the wall clock reading) and keeps it for the
\* keys that follow; a naive created_at met afterwards takes over the zone
\* of cutoff_time.  An expired record is removed from the set of its
\* document, when its document_id is not empty, and deleted.
SweepKey(id, cutoff, st, idx) ==
    LET task == st[id]
        created == task.created_at
        cutoff2 == IF created.tz # "naive" /\ cutoff.tz = "naive"
                   THEN Stamp(cutoff.wall, created.tz, created.offset) ELSE cutoff
        created2 == IF created.tz = "naive" /\ cutoff.tz # "naive"
                    THEN Stamp(created.wall, cutoff.tz, cutoff.offset) ELSE created IN
    IF task = NoTask \/ Unreadable(task)
    THEN [cutoff |-> cutoff, store |-> st, docIndex |-> idx]
    ELSE IF Earlier(created2, cutoff2)
    THEN [cutoff |-> cutoff2,
          store |-> [st EXCEPT ![id] = NoTask],
          docIndex |-> IF task.document_id # EmptyDoc
                       THEN [idx EXCEPT ![task.document_id] = @ \ {KeyId(TaskKey(id))}]
                       ELSE idx]
    ELSE [cutoff |-> cutoff2, store |-> st, docIndex |-> idx]

\* The loop over the scanned keys, in the order SCAN returned them.
RECURSIVE SweepKeys(_, _, _, _)
SweepKeys(keys, cutoff, st, idx) ==
    IF keys = <<>> THEN [cutoff |-> cutoff, store |-> st, docIndex |-> idx]
    ELSE LET one == SweepKey(Head(keys), cutoff, st, idx) IN
         SweepKeys(Tail(keys), one.cutoff, one.store, one.docIndex)

\* The orders in which SCAN can return the keys of the stored records.
ScanOrders ==
    LET keys == {i \in DOMAIN store : store[i] # NoTask} IN
    {o \in [1..Cardinality(keys) -> keys] :
        \A i, j \in 1..Cardinality(keys) : i # j => o[i] # o[j]}

\* cleanup_expired_tasks, run when the wall clock of the worker's host reads
\* now: cutoff_time = datetime.now() - retention, a naive datetime, then the
\* loop over the keys "task:*".
CleanupExpiredTasks(now, keys) ==
    /\ storeUp
    /\ keys # <<>>
    /\ LET end == SweepKeys(keys, Stamp(now - RetentionHours, "naive", 0), store, docIndex) IN
       /\ store' = end.store
       /\ docIndex' = end.docIndex
    /\ UNCHANGED <<queue, workers, lastCallback, posted, delivered, storeUp, endpointUp, producer, creates, crashes, inbound, splitter, retrier, stream, notifier>>

\* ----------------------------------------------------------- store faults
StoreDown ==
    /\ storeUp
    /\ storeUp' = FALSE
    /\ UNCHANGED <<store, docIndex, queue, workers, lastCallback, posted, delivered,
                   endpointUp, producer, creates, crashes, inbound, splitter, retrier, stream, notifier>>

StoreRecover ==
    /\ ~storeUp
    /\ storeUp' = TRUE
    /\ UNCHANGED <<store, docIndex, queue, workers, lastCallback, posted, delivered,
                   endpointUp, producer, creates, crashes, inbound, splitter, retrier, stream, notifier>>

\* ------------------------------------------------------ callback endpoint
\* The service behind CALLBACK_URL stops accepting notifications:
\* requests.post raises or answers with an error status.
EndpointDown ==
    /\ endpointUp
    /\ endpointUp' = FALSE
    /\ UNCHANGED <<store, docIndex, queue, workers, lastCallback, posted, delivered,
                   storeUp, producer, creates, crashes, inbound, splitter, retrier, stream, notifier>>

EndpointRecover ==
    /\ ~endpointUp
    /\ endpointUp' = TRUE
    /\ UNCHANGED <<store, docIndex, queue, workers, lastCallback, posted, delivered,
                   storeUp, producer, creates, crashes, inbound, splitter, retrier, stream, notifier>>

\* ----------------------------------------------------------- text splitter
\* A text is a sequence of characters.  The characters of the model: letters,
\* the space, the newline and the full stop.
Letters == {"A", "B", "C", "a", "b"}

Spaces == {" ", "\n"}

Chars == Letters \cup Spaces \cup {"."}

Min(a, b) == IF a <= b THEN a ELSE b

Max(a, b) == IF a >= b THEN a ELSE b

SetMin(S) == CHOOSE x \in S : \A y \in S : x <= y

SetMax(S) == CHOOSE x \in S : \A y \in S : x >= y

\* text[a:b] of Python, for 0 <= a.
Slice(text, a, b) == SubSeq(text, a + 1, Min(b, Len(text)))

\* text[i] of Python.
At(text, i) == text[i + 1]

\* The number of characters of text that are in set.
CountIn(text, set) == Cardinality({i \in 1..Len(text) : text[i] \in set})

\* The length of the longest prefix of text made of characters of set.
RECURSIVE LeadCount(_, _)
LeadCount(text, set) ==
    IF text = <<>> \/ Head(text) \notin set THEN 0
    ELSE 1 + LeadCount(Tail(text), set)

\* The length of the longest suffix of text made of characters of set.
RECURSIVE TrailCount(_, _)
TrailCount(text, set) ==
    IF text = <<>> \/ text[Len(text)] \notin set THEN 0
    ELSE 1 + TrailCount(SubSeq(text, 1, Len(text) - 1), set)

\* str.strip().
Strip(text) ==
    SubSeq(text, LeadCount(text, Spaces) + 1, Len(text) - TrailCount(text, Spaces))

\* " ".join(list).
RECURSIVE Join(_)
Join(list) ==
    IF list = <<>> THEN <<>>
    ELSE IF Len(list) = 1 THEN list[1]
    ELSE list[1] \o <<" ">> \o Join(Tail(list))

\* The concatenation of the texts of list.
RECURSIVE Concat(_)
Concat(list) == IF list = <<>> THEN <<>> ELSE Head(list) \o Concat(Tail(list))

\* re.sub of a run of more than most characters c by most of them.
RECURSIVE Collapse(_, _, _, _)
Collapse(text, c, most, run) ==
    IF text = <<>> THEN <<>>
    ELSE IF Head(text) = c
    THEN IF run < most
         THEN <<c>> \o Collapse(Tail(text), c, most, run + 1)
         ELSE Collapse(Tail(text), c, most, run)
    ELSE <<Head(text)>> \o Collapse(Tail(text), c, most, 0)

\* normalize_text: three or more newlines become two, two or more spaces
\* become one, and the text is stripped.  (The characters its other
\* substitutions remove are none of Chars.)
NormalizeText(text) ==
    IF text = <<>> THEN <<>>
    ELSE Strip(Collapse(Collapse(text, "\n", 2, 0), " ", 1, 0))

\* estimate_chunk_quality in thousandths, rounded down: 0.5 * meaningful_ratio
\* + 0.3 * min(1, avg_line_length / 40) + 0.2 * min(1, lines / 3), and 0 for
\* fewer than 10 characters.  (_create_chunk_metadata rounds it to hundredths;
\* which way it rounds a value that ends in 5 thousandths depends on the
\* floating point error, so the model keeps the digit.)
EstimateChunkQuality(chunk) ==
    IF Len(chunk) < 10 THEN 0
    ELSE LET c == Len(chunk)
             m == CountIn(chunk, Letters \cup Spaces)
             lines == CountIn(chunk, {"\n"}) + 1
             den == 1200 * c * lines
             num == 600 * m * lines
                    + Min(360 * c * lines, 9 * c * c)
                    + Min(240 * c * lines, 80 * c * lines * lines) IN
         (1000 * num) \div den

\* Chunk(text, index, metadata) with the metadata of _create_chunk_metadata.
MakeChunk(text, index) ==
    [text |-> text, index |-> index,
     metadata |-> [chunk_index |-> index, chunk_size |-> Len(text),
                   quality |-> EstimateChunkQuality(text)]]

\* The chunks of texts list, numbered from index first.
MakeChunks(list, first) == [i \in 1..Len(list) |-> MakeChunk(list[i], first + i - 1)]

NonEmpty(text) == text # <<>>

\* [p.strip() for p in list if p.strip()]
StripAll(list) == SelectSeq([i \in 1..Len(list) |-> Strip(list[i])], NonEmpty)

\* A paragraph separator that needs no blank line: the white space from a
\* newline on.
MatchAnyNewline(text) ==
    IF text = <<>> \/ Head(text) # "\n" THEN 0 ELSE LeadCount(text, Spaces)

\* Where a match of \n\s*\n that starts at the head of text ends: the last
\* newline of the run of white space the text starts with, 0 when the run
\* holds no second newline.
MatchEnd(text) ==
    LET run == LeadCount(text, Spaces)
        ends == {j \in 2..run : text[j] = "\n"} IN
    IF text = <<>> \/ Head(text) # "\n" \/ ends = {} THEN 0 ELSE SetMax(ends)

\* re.split(r'\n\s*\n', text), cur being the piece read so far.
RECURSIVE ReSplit(_, _)
ReSplit(text, cur) ==
    IF text = <<>> THEN <<cur>>
    ELSE IF MatchEnd(text) > 0
    THEN <<cur>> \o ReSplit(SubSeq(text, MatchEnd(text) + 1, Len(text)), <<>>)
    ELSE ReSplit(Tail(text), Append(cur, Head(text)))

\* _split_by_paragraph: one chunk for each non-empty paragraph.
SplitByParagraph(text) == MakeChunks(StripAll(ReSplit(text, <<>>)), 0)

\* The characters that end a sentence for the default pattern of
\* custom_sentence_split, [.!?\n].
PatternEndings == {".", "\n"}

\* SENTENCE_ENDINGS, as far as Chars goes.
SentenceEndings == {"."}

\* The loop of custom_sentence_split over the matches of
\* ([.!?\n]+)([^.!?\n]*) that re.findall finds from the head of text, which
\* starts with an ending; current is the text that followed the last ending.
RECURSIVE SentenceParts(_, _)
SentenceParts(text, current) ==
    IF text = <<>> THEN IF current # <<>> THEN <<current>> ELSE <<>>
    ELSE LET e == LeadCount(text, PatternEndings)
             rest == SubSeq(text, e + 1, Len(text))
             f == LeadCount(rest, Chars \ PatternEndings) IN
         <<current \o SubSeq(text, 1, e)>>
            \o SentenceParts(SubSeq(rest, f + 1, Len(rest)), SubSeq(rest, 1, f))

\* custom_sentence_split: re.findall starts at the first ending of the text,
\* and a text without an ending is one sentence.
CustomSentenceSplit(text) ==
    LET skipped == LeadCount(text, Chars \ PatternEndings) IN
    IF skipped = Len(text) THEN IF text = <<>> THEN <<>> ELSE <<text>>
    ELSE StripAll(SentenceParts(SubSeq(text, skipped + 1, Len(text)), <<>>))

\* split_sentences, on the path it takes when the NLTK tokenizer or its data
\* is not installed.
SplitSentences(text) ==
    IF text = <<>> THEN <<>> ELSE CustomSentenceSplit(NormalizeText(text))

\* The end of the piece of _split_by_length_helper that starts at i: the last
\* white space position in i+1..i+max_size, i + max_size when there is none.
HelperEnd(text, i, max_size) ==
    IF i + max_size < Len(text)
    THEN LET stops == {e \in (i + 1)..(i + max_size) : At(text, e) \in Spaces} IN
         IF stops = {} THEN i + max_size ELSE SetMax(stops)
    ELSE i + max_size

\* _split_by_length_helper, character mode, from position i on.
RECURSIVE SplitByLengthHelperFrom(_, _, _)
SplitByLengthHelperFrom(text, max_size, i) ==
    IF i >= Len(text) THEN <<>>
    ELSE LET chunk == Strip(Slice(text, i, HelperEnd(text, i, max_size))) IN
         (IF chunk # <<>> THEN <<chunk>> ELSE <<>>)
            \o SplitByLengthHelperFrom(text, max_size, i + max_size)

SplitByLengthHelper(text, max_size) == SplitByLengthHelperFrom(text, max_size, 0)

\* The sizes of the sentences of list, added up.
RECURSIVE SizeOf(_)
SizeOf(list) == IF list = <<>> THEN 0 ELSE Len(Head(list)) + SizeOf(Tail(list))

\* The longest run of trailing sentences of current_chunk whose sizes add up
\* to chunk_overlap at most.
OverlapSentences(current_chunk, chunk_overlap) ==
    LET fits == {k \in 0..Len(current_chunk) :
                    SizeOf(SubSeq(current_chunk, Len(current_chunk) - k + 1,
                                  Len(current_chunk))) <= chunk_overlap} IN
    SubSeq(current_chunk, Len(current_chunk) - SetMax(fits) + 1, Len(current_chunk))

\* The pieces of a long sentence that _split_by_sentence keeps.
LongEnough(list, min_chunk_size) ==
    LET Keep(wc) == Len(wc) >= min_chunk_size IN SelectSeq(list, Keep)

\* The loop of _split_by_sentence over sentences, as the texts of its chunks.
RECURSIVE SentenceLoop(_, _, _, _)
SentenceLoop(sentences, current_chunk, current_size, config) ==
    IF sentences = <<>>
    THEN IF current_chunk # <<>> THEN <<Join(current_chunk)>> ELSE <<>>
    ELSE LET sentence == Head(sentences)
             sentence_size == Len(sentence)
             flushed == IF current_chunk # <<>> THEN <<Join(current_chunk)>> ELSE <<>> IN
         IF sentence_size > config.chunk_size
         THEN flushed
                \o LongEnough(SplitByLengthHelper(sentence, config.chunk_size),
                              config.min_chunk_size)
                \o SentenceLoop(Tail(sentences), <<>>, 0, config)
         ELSE IF current_size + sentence_size <= config.chunk_size \/ current_chunk = <<>>
         THEN SentenceLoop(Tail(sentences), Append(current_chunk, sentence),
                           current_size + sentence_size, config)
         ELSE LET next == IF config.chunk_overlap > 0 /\ Len(current_chunk) > 1
                          THEN Append(OverlapSentences(current_chunk, config.chunk_overlap),
                                      sentence)
                          ELSE <<sentence>> IN
              flushed \o SentenceLoop(Tail(sentences), next, SizeOf(next), config)

\* _split_by_sentence.
SplitBySentence(text, config) ==
    MakeChunks(SentenceLoop(SplitSentences(text), <<>>, 0, config), 0)

\* is_sentence_boundary: no character of Chars is a quote or a bracket.
IsSentenceBoundary(text, pos) ==
    /\ pos > 0
    /\ pos < Len(text)
    /\ At(text, pos) \in SentenceEndings \/ At(text, pos - 1) \in SentenceEndings
    /\ ~(pos + 1 < Len(text) /\ At(text, pos + 1) \in Letters)

IsParagraphBoundary(text, i) ==
    i + 1 < Len(text) /\ At(text, i) = "\n" /\ At(text, i + 1) = "\n"

IsNewline(text, i) == At(text, i) = "\n"

IsSpace(text, i) == At(text, i) \in Spaces

\* The boundaries find_best_split_point looks for, by kind.
IsBoundary(kind, text, i) ==
    CASE kind = "paragraph" -> IsParagraphBoundary(text, i)
      [] kind = "sentence" -> IsSentenceBoundary(text, i)
      [] kind = "newline" -> IsNewline(text, i)
      [] OTHER -> IsSpace(text, i)

\* The position find_best_split_point finds for one kind of boundary: the
\* first one from target_pos forwards, else the first one backwards, -1 for
\* none.
FirstBoundary(text, target_pos, kind) ==
    LET forward == {i \in target_pos..(Min(Len(text), target_pos + Window) - 1) :
                       IsBoundary(kind, text, i)}
        backward == {i \in (Max(0, target_pos - Window) + 1)..target_pos :
                        IsBoundary(kind, text, i)} IN
    IF forward # {} THEN SetMin(forward)
    ELSE IF backward # {} THEN SetMax(backward)
    ELSE 0 - 1

\* find_best_split_point.
FindBestSplitPoint(text, target_pos) ==
    IF target_pos <= 0 THEN 0
    ELSE IF target_pos >= Len(text) THEN Len(text)
    ELSE IF FirstBoundary(text, target_pos, "paragraph") >= 0
    THEN FirstBoundary(text, target_pos, "paragraph") + 2
    ELSE IF FirstBoundary(text, target_pos, "sentence") >= 0
    THEN FirstBoundary(text, target_pos, "sentence") + 1
    ELSE IF FirstBoundary(text, target_pos, "newline") >= 0
    THEN FirstBoundary(text, target_pos, "newline") + 1
    ELSE IF FirstBoundary(text, target_pos, "space") >= 0
    THEN FirstBoundary(text, target_pos, "space") + 1
    ELSE target_pos

\* The result of a strategy: its chunks, or no return at all.
Returned(chunks) == [returns |-> TRUE, chunks |-> chunks]

NoReturn == [returns |-> FALSE, chunks |-> <<>>]

\* The while loop of _split_by_length from position start on, texts being
\* the chunk texts appended so far.  Its next iteration depends on start
\* alone, so an iteration that does not move start forwards is repeated for
\* ever.
RECURSIVE LengthLoop(_, _, _, _)
LengthLoop(text, start, texts, config) ==
    IF start >= Len(text) THEN Returned(MakeChunks(texts, 0))
    ELSE LET whole == Min(start + config.chunk_size, Len(text))
             end == IF whole < Len(text)
                    THEN Min(FindBestSplitPoint(text, whole), start + config.chunk_size)
                    ELSE whole
             chunk_text == Slice(text, start, end)
             kept == IF Len(chunk_text) >= config.min_chunk_size
                     THEN Append(texts, chunk_text) ELSE texts
             next == IF end < Len(text) /\ config.chunk_overlap < end - start
                     THEN end - config.chunk_overlap ELSE end IN
         IF next <= start THEN NoReturn
         ELSE LengthLoop(text, next, kept, config)

\* _split_by_length.
SplitByLength(text, config) ==
    IF text = <<>> THEN Returned(<<>>)
    ELSE IF Len(text) <= config.chunk_size THEN Returned(<<MakeChunk(text, 0)>>)
    ELSE LengthLoop(text, 0, <<>>, config)

\* The chunks _post_process_chunks keeps: min_chunk_length_to_embed
\* characters at least and a quality of MinQuality at least, stripped.
Embeddable(chunks, config) ==
    LET Keep(chunk) == /\ Len(chunk.text) >= config.min_chunk_length_to_embed
                       /\ chunk.metadata.quality >= MinQuality
        kept == SelectSeq(chunks, Keep) IN
    [i \in 1..Len(kept) |-> [kept[i] EXCEPT !.text = Strip(kept[i].text)]]

\* _post_process_chunks without its renumbering.
PostProcessKeepsIndex(chunks, config) == Embeddable(chunks, config)

\* _post_process_chunks: the chunks kept are renumbered from 0.
PostProcessChunks(chunks, config) ==
    LET kept == Embeddable(chunks, config) IN
    [i \in 1..Len(kept) |->
        [kept[i] EXCEPT !.index = i - 1, !.metadata.chunk_index = i - 1]]

\* The strategy split dispatches to; "semantic" and every unknown split_type
\* fall back to the paragraph strategy.
Strategy(text, split_type, config) ==
    CASE split_type = "sentence" -> Returned(SplitBySentence(text, config))
      [] split_type = "length" -> SplitByLength(text, config)
      [] OTHER -> Returned(SplitByParagraph(text))

\* The chunks of the strategy for the preprocessed text, before
\* _post_process_chunks.
RawChunks(text, split_type, config) ==
    IF text = <<>> THEN Returned(<<>>)
    ELSE Strategy(NormalizeText(text), split_type, config)

\* TextSplitter.split.
SplitText(text, split_type, config) ==
    LET raw == RawChunks(text, split_type, config) IN
    IF raw.returns THEN Returned(PostProcessChunks(raw.chunks, config)) ELSE NoReturn

\* ------------------------------------------------------- splitter inputs
\* A text is made of up to MaxParts pieces with a separator between two
\* pieces; it is kept as the sequence piece, separator, piece, ...
ShortPieces == {<<"A", ".">>, <<"B", ".">>, <<"C", ".">>}

LongPiece == <<"a", "a", "a", "a", " ", "b", "b", "b", "b", ".">>

Pieces == ShortPieces \cup {LongPiece}

BlankLines == {<<"\n", "\n">>, <<"\n", "\n", "\n">>}

Separators == {<<" ">>, <<"\n">>} \cup BlankLines

Inputs ==
    {<<>>} \cup
    UNION {{parts \in [1..(2 * n - 1) -> Pieces \cup Separators] :
               \A i \in 1..(2 * n - 1) :
                  IF i % 2 = 1 THEN parts[i] \in Pieces ELSE parts[i] \in Separators}
           : n \in 1..MaxParts}

ChunkSizes == {SmallChunkSize, MidChunkSize, LargeChunkSize}

ChunkOverlaps == {0, SmallOverlap}

MinChunkSizes == {SmallMinChunkSize, DefaultMinChunkSize}

SplitTypes == {"paragraph", "sentence", "length", "semantic"}

\* SplitConfig(chunk_size, chunk_overlap, min_chunk_size).
SplitConfig(chunk_size, chunk_overlap, min_chunk_size) ==
    [chunk_size |-> chunk_size, chunk_overlap |-> chunk_overlap,
     min_chunk_size |-> min_chunk_size,
     min_chunk_length_to_embed |-> MinChunkLengthToEmbed]

Configs ==
    {SplitConfig(s, o, m) : s \in ChunkSizes, o \in ChunkOverlaps, m \in MinChunkSizes}

\* A call of TextSplitter.split that has not run yet.
SplitCall(parts, split_type, config) ==
    [pc |-> "ready", parts |-> parts, text |-> Concat(parts),
     split_type |-> split_type, config |-> config]

\* TextSplitter.split runs: it returns its chunks or never returns.  raw
\* keeps the chunks of the strategy as they were before _post_process_chunks.
Split ==
    /\ splitter.pc = "ready"
    /\ LET raw == RawChunks(splitter.text, splitter.split_type, splitter.config)
           out == SplitText(splitter.text, splitter.split_type, splitter.config) IN
       splitter' = [pc |-> IF out.returns THEN "done" ELSE "hung",
                    parts |-> splitter.parts, text |-> splitter.text,
                    split_type |-> splitter.split_type, config |-> splitter.config,
                    raw |-> raw.chunks, chunks |-> out.chunks]
    /\ UNCHANGED <<pipeline, retrier, stream, notifier>>


\* ------------------------------------------------------- semantic merging
\* get_optimal_splits and _merge_similar_chunks of SemanticSplitter.  The
\* embedding function is a capability of the caller: a call of it returns one
\* vector of Vectors for each text or raises.
Vectors == {<<1, 0>>, <<0, 1>>, <<3, 4>>, <<0, 0>>}

Dot(u, v) == u[1] * v[1] + u[2] * v[2]

\* np.linalg.norm; the vectors of Vectors have whole norms.
Norm(v) == CHOOSE n \in 0..MaxNorm : n * n = Dot(v, v)

\* _compute_similarity, in hundredths: the cosine, 0 for a zero vector,
\* clamped to 0..1.
ComputeSimilarity(u, v) ==
    IF Norm(u) = 0 \/ Norm(v) = 0 THEN 0
    ELSE Max(0, Min(100, (100 * Dot(u, v)) \div (Norm(u) * Norm(v))))

\* The texts of the chunks the semantic split produced.
ChunkNames == <<"A", "B", "C", "a", "b">>

\* The n chunks of a semantic split, as _post_process_chunks numbered them.
SemanticChunks(n) == [k \in 1..n |-> MakeChunk(<<ChunkNames[k]>>, k - 1)]

\* A call get_optimal_splits(text, max_chunks) whose semantic split gave n
\* chunks.
MergeCall(n, max_chunks) ==
    [pc |-> "called", original |-> SemanticChunks(n), target |-> max_chunks,
     chunks |-> SemanticChunks(n), sim |-> <<>>, cache |-> <<>>, merges |-> 0,
     failed |-> FALSE]

\* chunks[:target_count]
FirstChunks(chunks, target_count) == SubSeq(chunks, 1, Min(target_count, Len(chunks)))

\* get_optimal_splits returns the semantic chunks when they are max_chunks
\* at most (and _merge_similar_chunks returns them on the same test), else
\* the merge starts.
GetOptimalSplits ==
    /\ splitter.pc = "called"
    /\ splitter' = [splitter EXCEPT
                       !.pc = IF Len(splitter.chunks) <= splitter.target
                              THEN "returned" ELSE "embed"]
    /\ UNCHANGED <<pipeline, retrier, stream, notifier>>

\* The similarity matrix of the chunks whose embeddings are emb.
SimilarityMatrix(emb) ==
    [i \in 1..Len(emb) |->
        [j \in 1..Len(emb) |-> IF i = j THEN 0 ELSE ComputeSimilarity(emb[i], emb[j])]]

\* _get_embeddings_batch of all chunk texts succeeds: the embeddings are
\* cached by text and the similarity matrix is filled.
EmbedChunks ==
    /\ splitter.pc = "embed"
    /\ \E emb \in [1..Len(splitter.chunks) -> Vectors] :
          splitter' = [splitter EXCEPT
                          !.pc = "merging",
                          !.sim = SimilarityMatrix(emb),
                          !.cache = [t \in {splitter.chunks[k].text :
                                               k \in 1..Len(splitter.chunks)} |->
                                        emb[CHOOSE k \in 1..Len(splitter.chunks) :
                                               splitter.chunks[k].text = t]]]
    /\ UNCHANGED <<pipeline, retrier, stream, notifier>>

\* The pairs i < j of 1..n.
Pairs(n) == {p \in (1..n) \X (1..n) : p[1] < p[2]}

\* The pair the double loop of _merge_similar_chunks ends with: the first
\* pair, in the order of the loops, of the highest similarity.
BestPair(sim, n) ==
    CHOOSE p \in Pairs(n) :
       \A q \in Pairs(n) :
          \/ sim[q[1]][q[2]] < sim[p[1]][p[2]]
          \/ /\ sim[q[1]][q[2]] = sim[p[1]][p[2]]
             /\ p[1] < q[1] \/ (p[1] = q[1] /\ p[2] <= q[2])

\* remaining_indices: the positions of 1..n other than i and j, in order.
RemainingIndices(n, i, j) ==
    LET Other(k) == k \notin {i, j} IN SelectSeq([k \in 1..n |-> k], Other)

\* A merge that keeps the first chunk of the pair only.
MergedChunkKeepsFirst(chunks, i, j) == chunks[i]

\* The chunk made of chunks i and j: their texts with a space between, the
\* index and the metadata of chunk i.
MergedChunk(chunks, i, j) ==
    [text |-> chunks[i].text \o <<" ">> \o chunks[j].text,
     index |-> chunks[i].index, metadata |-> chunks[i].metadata]

\* new_chunks: the other chunks in order, then the merged one.
NewChunks(chunks, i, j) ==
    LET rest == RemainingIndices(Len(chunks), i, j) IN
    [k \in 1..Len(rest) |-> chunks[rest[k]]] \o <<MergedChunk(chunks, i, j)>>

\* new_similarity_matrix: the similarities of the other chunks are copied,
\* those of the merged chunk, the last one, are computed from its embedding
\* v and the embeddings of the others in the cache.
NewSimilarityMatrix(sim, chunks, i, j, v, cache) ==
    LET rest == RemainingIndices(Len(chunks), i, j)
        new == NewChunks(chunks, i, j)
        m == Len(new) IN
    [a \in 1..m |->
        [b \in 1..m |->
            IF a = b THEN 0
            ELSE IF a = m THEN ComputeSimilarity(v, cache[new[b].text])
            ELSE IF b = m THEN ComputeSimilarity(v, cache[new[a].text])
            ELSE sim[rest[a]][rest[b]]]]

\* One iteration of the merge loop with every embedding call succeeding: the
\* merged text is embedded by the embedding function itself (v), the other
\* chunks through the cache, which asks the function for the texts it does
\* not hold (fresh).
MergeStep ==
    /\ splitter.pc = "merging"
    /\ Len(splitter.chunks) > splitter.target
    /\ LET chunks == splitter.chunks
           p == BestPair(splitter.sim, Len(chunks))
           new == NewChunks(chunks, p[1], p[2])
           others == {new[k].text : k \in 1..(Len(new) - 1)} IN
       \E v \in Vectors, fresh \in [others \ DOMAIN splitter.cache -> Vectors] :
          LET cache == [t \in DOMAIN splitter.cache \cup DOMAIN fresh |->
                           IF t \in DOMAIN fresh THEN fresh[t] ELSE splitter.cache[t]] IN
          splitter' = [splitter EXCEPT
                          !.chunks = new,
                          !.sim = NewSimilarityMatrix(splitter.sim, chunks, p[1], p[2],
                                                      v, cache),
                          !.cache = cache,
                          !.merges = splitter.merges + 1]
    /\ UNCHANGED <<pipeline, retrier, stream, notifier>>

\* The loop has reached target_count: the chunks are renumbered and returned.
FinishMerge ==
    /\ splitter.pc = "merging"
    /\ Len(splitter.chunks) <= splitter.target
    /\ splitter' = [splitter EXCEPT
                       !.pc = "returned",
                       !.chunks = [i \in 1..Len(splitter.chunks) |->
                                      [splitter.chunks[i] EXCEPT
                                          !.index = i - 1,
                                          !.metadata.chunk_index = i - 1]]]
    /\ UNCHANGED <<pipeline, retrier, stream, notifier>>

\* An embedding call raises, in the first batch or in an iteration of the
\* loop: the except branch returns chunks[:target_count], chunks being the
\* list the last completed iteration left.
MergeFallback ==
    /\ \/ splitter.pc = "embed"
       \/ splitter.pc = "merging" /\ Len(splitter.chunks) > splitter.target
    /\ splitter' = [splitter EXCEPT
                       !.pc = "returned",
                       !.failed = TRUE,
                       !.chunks = FirstChunks(splitter.chunks, splitter.target)]
    /\ UNCHANGED <<pipeline, retrier, stream, notifier>>

\* ---------------------------------------------------------------- retry
\* app/utils/utils.py, retry: the wrapper of a function that may raise.
\* The wrapped function is a capability: each call returns a value or raises
\* an exception of some class.

\* What one call of the wrapped function can do.
ReturnValues == {"r1", "r2"}

ExceptionClasses == {"ValueError", "TypeError"}

FuncOutcomes ==
    [kind : {"return"}, value : ReturnValues]
        \cup [kind : {"raise"}, value : ExceptionClasses]

\* The exceptions argument: the default (Exception,) or (ValueError,).
ExceptionTuples == {{"Exception"}, {"ValueError"}}

\* except exceptions as e: every class of the model derives from Exception.
CaughtAlways(outcome, exceptions) == outcome.kind = "raise"

Caught(outcome, exceptions) ==
    /\ outcome.kind = "raise"
    /\ "Exception" \in exceptions \/ outcome.value \in exceptions

\* The wrapper called: mtries, mdelay = max_retries, delay, and the while
\* loop not entered when max_retries is not positive (the wrapper then falls
\* off its end and returns None).
RetryCall(max_retries, delay, backoff, exceptions) ==
    [pc |-> IF max_retries > 0 THEN "loop" ELSE "returned",
     max_retries |-> max_retries, backoff |-> backoff,
     exceptions |-> exceptions,
     mtries |-> max_retries, mdelay |-> delay,
     calls |-> <<>>, slept |-> 0,
     result |-> [kind |-> "return", value |-> "None"]]

\* One turn of the while loop: the function is called; its value is
\* returned, a caught exception costs one try and is re-raised when none is
\* left, or slept on, and any other exception leaves the wrapper.
Attempt(outcome) ==
    /\ retrier.pc = "loop"
    /\ retrier.mtries > 0
    /\ LET calls == Append(retrier.calls, outcome)
           mtries == retrier.mtries - 1
       IN  retrier' =
             IF outcome.kind = "return"
             THEN [retrier EXCEPT !.pc = "returned", !.calls = calls,
                                  !.result = outcome]
             ELSE IF ~Caught(outcome, retrier.exceptions)
             THEN [retrier EXCEPT !.pc = "raised", !.calls = calls,
                                  !.result = outcome]
             ELSE IF mtries <= 0
             THEN [retrier EXCEPT !.pc = "raised", !.calls = calls,
                                  !.mtries = mtries, !.result = outcome]
             ELSE [retrier EXCEPT !.calls = calls, !.mtries = mtries,
                                  !.slept = @ + retrier.mdelay,
                                  !.mdelay = @ * retrier.backoff]
    /\ UNCHANGED <<pipeline, splitter, stream, notifier>>

\* --------------------------------------------------- streaming generation
\* app/api/llm_api.py, generate_rag_stream, with RAG.query_stream and
\* RAG.generate_answer_stream of app/llm/rag.py.  The events of one stream
\* are kept by their type, in the order of their emission.  The generators
\* run on one event loop: the task that watches the client connection and
\* sets the flag runs only while the stream waits, which it does after
\* every event it has emitted and during the search.

\* What the vector search and one step of the model's answer can do.
SearchOutcomes == {"results", "none", "raise"}

LlmOutcomes == {"text", "empty", "end", "raise"}

\* is_cancelled = {"value": False}, the stream not yet started.
StreamCall ==
    [pc |-> "start", cancelled |-> FALSE, events |-> <<>>, waiting |-> FALSE,
     increments |-> 0, flagged_at |-> 0, flagged_increments |-> 0,
     cancel_requests |-> 0]

\* check_cancelled(): the value of the flag.
NeverCancelled(s) == FALSE

CheckCancelled(s) == s.cancelled

Emit(s, types) == [s EXCEPT !.events = @ \o types, !.waiting = TRUE]

\* The end of the stream: stream_generator closes with the [DONE] line.
EndWith(s, type) == [Emit(s, <<type, "[DONE]">>) EXCEPT !.pc = "done"]

\* query_stream opens with the "start" event.
StreamStart ==
    /\ stream.pc = "start"
    /\ stream' = [Emit(stream, <<"start">>) EXCEPT !.pc = "search"]
    /\ UNCHANGED <<pipeline, splitter, retrier, notifier>>

\* The query is embedded and the vector database asked: without results
\* the fixed answer is emitted as content, with results the summary of the
\* sources, and a failure ends the stream with an "error" event.
StreamSearch(outcome) ==
    /\ stream.pc = "search"
    /\ stream' =
         CASE outcome = "none" ->
                [Emit(stream, <<"content">>) EXCEPT !.pc = "no_results"]
           [] outcome = "results" ->
                [Emit(stream, <<"search_results">>) EXCEPT !.pc = "generate"]
           [] OTHER -> EndWith(stream, "error")
    /\ UNCHANGED <<pipeline, splitter, retrier, notifier>>

\* yield {"type": "finish", "time_taken": 0} after the fixed answer.
StreamNoResults ==
    /\ stream.pc = "no_results"
    /\ stream' = EndWith(stream, "finish")
    /\ UNCHANGED <<pipeline, splitter, retrier, notifier>>

\* One turn of 'for text_chunk in response_stream': the model gives its
\* next increment, ends or fails.  The flag is read once an increment is
\* there and before it is emitted; an empty increment emits nothing.
StreamGenerate(outcome) ==
    /\ stream.pc = "generate"
    /\ outcome \in {"text", "empty"} => stream.increments < MaxIncrements
    /\ stream' =
         CASE outcome \in {"text", "empty"} ->
                IF CheckCancelled(stream)
                THEN [EndWith(stream, "cancelled") EXCEPT !.increments = @ + 1]
                ELSE IF outcome = "text"
                THEN [Emit(stream, <<"content">>) EXCEPT !.increments = @ + 1]
                ELSE [stream EXCEPT !.increments = @ + 1, !.waiting = FALSE]
           [] outcome = "end" -> EndWith(stream, "finish")
           [] OTHER -> EndWith(stream, "error")
    /\ UNCHANGED <<pipeline, splitter, retrier, notifier>>

\* monitor_client_connection: the client has gone, the flag is set.
ClientDisconnected ==
    /\ stream.pc \in {"search", "no_results", "generate"}
    /\ stream.waiting
    /\ ~stream.cancelled
    /\ stream' = [stream EXCEPT !.cancelled = TRUE,
                                !.flagged_at = Len(stream.events),
                                !.flagged_increments = stream.increments]
    /\ UNCHANGED <<pipeline, splitter, retrier, notifier>>

\* POST /cancel/{request_id}: answers success and leaves every stream and
\* its flag alone.
CancelStreaming ==
    /\ stream.pc \in {"search", "no_results", "generate"}
    /\ stream.cancel_requests < MaxCancelRequests
    /\ stream' = [stream EXCEPT !.cancel_requests = @ + 1]
    /\ UNCHANGED <<pipeline, splitter, retrier, notifier>>

\* --------------------------------------------- update_task_status, in steps
\* app/worker/tasks.py, update_task_status, followed statement by statement:
\* the SET of the record and the POST of the notification are two requests
\* to two services, and other invocations run between them.  The callers
\* are the invocations of a handler that hold the same job (a message that
\* was delivered again while the first invocation runs); each calls
\* update_task_status with PROCESSING and then with its terminal state.
Callers == 1..NumCallers

\* The states one invocation passes to update_task_status, in its order.
UpdatesOf(terminal) == <<"processing", terminal>>

UpdateCalls(terminals) ==
    [pc |-> "running",
     callers |-> [c \in Callers |->
                     [pc |-> "set", todo |-> UpdatesOf(terminals[c])]],
     writes |-> <<>>, sent |-> <<>>, failed |-> {}, up |-> TRUE]

\* The state a caller is writing, with the caller as its mark.
Update(c) == [caller |-> c, status |-> Head(notifier.callers[c].todo)]

\* update_task_status returned: the caller goes on to its next call.
NextUpdate(c) ==
    LET todo == Tail(notifier.callers[c].todo) IN
    [pc |-> IF todo = <<>> THEN "done" ELSE "set", todo |-> todo]

\* client.set(key, task.to_json()): the record is written, or the request
\* raises, the except branch returns False and nothing is posted.
UpdateSet(c) ==
    /\ notifier.pc = "running"
    /\ notifier.callers[c].pc = "set"
    /\ notifier' =
         IF notifier.up
         THEN [notifier EXCEPT !.writes = Append(@, Update(c)),
                               !.callers[c].pc = "post"]
         ELSE [notifier EXCEPT !.failed = @ \cup {Update(c)},
                               !.callers[c] = NextUpdate(c)]
    /\ UNCHANGED <<pipeline, splitter, retrier, stream>>

\* send_callback(CALLBACK_URL, callback_data), then return True.
UpdatePost(c) ==
    /\ notifier.pc = "running"
    /\ notifier.callers[c].pc = "post"
    /\ notifier' = [notifier EXCEPT !.sent = Append(@, Update(c)),
                                    !.callers[c] = NextUpdate(c)]
    /\ UNCHANGED <<pipeline, splitter, retrier, stream>>

\* The store becomes unreachable, or reachable again.
UpdateStoreFlips ==
    /\ notifier.pc = "running"
    /\ \E c \in Callers : notifier.callers[c].pc # "done"
    /\ notifier' = [notifier EXCEPT !.up = ~@]
    /\ UNCHANGED <<pipeline, splitter, retrier, stream>>

\* ------------------------------------------------------- specifications
\* The API process: creation requests.
Producer ==
    \/ \E type \in TaskType, sec \in Secs, doc \in Docs, day \in CreatedDays :
          \E payload \in PayloadsOf(type) : CreateTask(type, sec, doc, payload, day)
    \/ AddToDocumentSet
    \/ SendToQueue
    \/ ProducerCrash

\* One process of the worker pool at work: it takes a message, runs the
\* handler and acknowledges.
ExecutorRun(w) ==
    \/ \E id \in Ids, impl \in Impls : Deliver(w, id, impl)
    \/ MarkProcessing(w)
    \/ Validate(w)
    \/ \E outcome \in {"ok", "raise"} : StageParse(w, outcome)
    \/ \E outcome \in {"ok", "empty", "raise"} : StageChunk(w, outcome)
    \/ \E outcome \in {"ok", "raise"} : StageEmbed(w, outcome)
    \/ Ack(w)

\* One process of the worker pool.
Executor(w) == ExecutorRun(w) \/ Crash(w)

\* The other clients of the store: the callback endpoint and the sweeper.
Clients ==
    \/ \E id \in Ids, status \in TaskStatus \cup {"bogus"} :
          \E result \in {NoneResult, CallbackResult}, error \in {"", "callback error"} :
             HandleCallback(id, status, result, error)
    \/ \E now \in SweepTimes, keys \in ScanOrders : CleanupExpiredTasks(now, keys)

\* worker_concurrency = os.cpu_count(): one pool process on a single CPU.
Next == Producer \/ Clients \/ \E w \in 1..Concurrency : Executor(w)

\* The pool with all its processes.
NextPool == Producer \/ Clients \/ \E w \in Workers : Executor(w)

\* The pipeline with a store that answers every request.
Spec == Init /\ [][Next]_vars

\* The pipeline with a store that can become unreachable.
NextFaulty == Next \/ StoreDown \/ StoreRecover

SpecFaulty == Init /\ [][NextFaulty]_vars

\* The pipeline with a callback endpoint that can become unreachable.
NextLossy == Next \/ EndpointDown \/ EndpointRecover

SpecLossy == Init /\ [][NextLossy]_vars

\* The pipeline with a pool process that keeps working: a process that can
\* take a message or go on with its handler eventually does (capability
\* calls return or raise, task_time_limit bounds them).
SpecLive == Init /\ [][Next]_vars /\ \A w \in 1..Concurrency : WF_vars(ExecutorRun(w))

\* The pipeline with every process of the worker pool running.
SpecPool == Init /\ [][NextPool]_vars

\* The retention sweeper alone, started on a store that holds the records
\* of earlier jobs.  The records were written by the writers that share the
\* store: their ids are the ids of the producers of this service, with any
\* document_id the request models accept, or an id that starts with
\* "task:", and their created_at is in any of the ISO 8601 forms
\* Task.from_dict and the sweeper parse.
SweepDocs == Docs \cup {EmptyDoc}

SweepIds ==
    ({"document_parse"} \X Secs \X SweepDocs)
    \cup {<<"task:", "text_chunk", sec, doc>> : sec \in Secs, doc \in Docs}

SweepStamps ==
    {Stamp(d * HoursPerDay + h, tz, 0) :
        d \in CreatedDays, h \in {0, LateHour}, tz \in {"naive", "Z"}}
    \cup {Stamp(d * HoursPerDay + h, "offset", offset) :
             d \in CreatedDays, h \in {0, LateHour}, offset \in Offsets \ {0}}

\* The record of job id, created at stamp.
StoredTask(id, stamp) ==
    [NewTask(id, id[Len(id) - 2], id[Len(id)], "valid", 0)
        EXCEPT !.created_at = stamp]

\* Every record is in the set of its document, as a completed creation
\* request leaves it.
SweepInit ==
    /\ store \in [SweepIds -> {NoTask, Garbled} \cup
                     {StoredTask(i, stamp) :
                         i \in SweepIds,
                         stamp \in SweepStamps \cup {MissingStamp, MalformedStamp}}]
    /\ \A i \in SweepIds : store[i] \notin {NoTask, Garbled} => store[i].id = i
    /\ Cardinality({i \in SweepIds : store[i] # NoTask}) \in 1..MaxSwept
    /\ docIndex = [d \in SweepDocs |->
                      {i \in SweepIds : /\ store[i] \notin {NoTask, Garbled}
                                        /\ store[i].document_id = d}]
    /\ queue = [i \in SweepIds |-> 0]
    /\ workers = [w \in Workers |-> IdleWorker]
    /\ lastCallback = NoCallback
    /\ posted = 0
    /\ delivered = 0
    /\ storeUp = TRUE
    /\ endpointUp = TRUE
    /\ producer = NoRequest
    /\ creates = 0
    /\ crashes = 0
    /\ inbound = 0
    /\ splitter = NoSplit
    /\ retrier = NoRetry
    /\ stream = NoStream
    /\ notifier = NoUpdates

\* The readers of the store, started on a store whose keys hold a record,
\* nothing, or a value that is no record of a Task (the store is shared with
\* other writers), with one message in the queue and a store that can
\* become unreachable at any time.
QueryInit ==
    /\ store \in [Ids -> {NoTask, Garbled} \cup
                          {NewTask(i, i[1], i[3], "valid", 0) : i \in Ids}]
    /\ \A i \in Ids : store[i] \notin {NoTask, Garbled} => store[i].id = i
    /\ docIndex = [d \in Docs |-> {i \in Ids : store[i] # NoTask /\ i[3] = d}]
    /\ \E i \in Ids : queue = [j \in Ids |-> IF j = i THEN 1 ELSE 0]
    /\ workers = [w \in Workers |-> IdleWorker]
    /\ lastCallback = NoCallback
    /\ posted = 0
    /\ delivered = 0
    /\ storeUp \in BOOLEAN
    /\ endpointUp = TRUE
    /\ producer = NoRequest
    /\ creates = 0
    /\ crashes = 0
    /\ inbound = 0
    /\ splitter = NoSplit
    /\ retrier = NoRetry
    /\ stream = NoStream
    /\ notifier = NoUpdates

QueryNext ==
    \/ \E w \in 1..Concurrency : ExecutorRun(w)
    \/ \E id \in Ids, status \in TaskStatus \cup {"bogus"} :
          \E result \in {NoneResult, CallbackResult}, error \in {"", "callback error"} :
             HandleCallback(id, status, result, error)
    \/ StoreDown
    \/ StoreRecover

SpecQuery == QueryInit /\ [][QueryNext]_vars

SweepNext == \E now \in SweepTimes, keys \in ScanOrders : CleanupExpiredTasks(now, keys)

SpecSweep == SweepInit /\ [][SweepNext]_vars

\* The text splitter alone: one call of TextSplitter.split for each text,
\* split type and configuration of the inputs.
SplitInit ==
    /\ store = [i \in Ids |-> NoTask]
    /\ docIndex = [d \in Docs |-> {}]
    /\ queue = [i \in Ids |-> 0]
    /\ workers = [w \in Workers |-> IdleWorker]
    /\ lastCallback = NoCallback
    /\ posted = 0
    /\ delivered = 0
    /\ storeUp = TRUE
    /\ endpointUp = TRUE
    /\ producer = NoRequest
    /\ creates = 0
    /\ crashes = 0
    /\ inbound = 0
    /\ \E parts \in Inputs, split_type \in SplitTypes, config \in Configs :
          splitter = SplitCall(parts, split_type, config)
    /\ retrier = NoRetry
    /\ stream = NoStream
    /\ notifier = NoUpdates

SplitNext == Split

SpecSplit == SplitInit /\ [][SplitNext]_vars

\* The merge of the semantic splitter alone: one call of get_optimal_splits
\* for each number of semantic chunks and each max_chunks, the embedding
\* function answering with any vectors or failing at any call.
MergeInit ==
    /\ store = [i \in Ids |-> NoTask]
    /\ docIndex = [d \in Docs |-> {}]
    /\ queue = [i \in Ids |-> 0]
    /\ workers = [w \in Workers |-> IdleWorker]
    /\ lastCallback = NoCallback
    /\ posted = 0
    /\ delivered = 0
    /\ storeUp = TRUE
    /\ endpointUp = TRUE
    /\ producer = NoRequest
    /\ creates = 0
    /\ crashes = 0
    /\ inbound = 0
    /\ \E n \in 1..MaxChunks, max_chunks \in 1..MaxChunks :
          splitter = MergeCall(n, max_chunks)
    /\ retrier = NoRetry
    /\ stream = NoStream
    /\ notifier = NoUpdates

MergeNext ==
    \/ GetOptimalSplits
    \/ EmbedChunks
    \/ MergeStep
    \/ FinishMerge
    \/ MergeFallback

SpecMerge == MergeInit /\ [][MergeNext]_vars

\* The retry wrapper alone: one call of a wrapped function for each
\* max_retries, backoff and exceptions argument, the function returning or
\* raising at will.
RetryInit ==
    /\ store = [i \in Ids |-> NoTask]
    /\ docIndex = [d \in Docs |-> {}]
    /\ queue = [i \in Ids |-> 0]
    /\ workers = [w \in Workers |-> IdleWorker]
    /\ lastCallback = NoCallback
    /\ posted = 0
    /\ delivered = 0
    /\ storeUp = TRUE
    /\ endpointUp = TRUE
    /\ producer = NoRequest
    /\ creates = 0
    /\ crashes = 0
    /\ inbound = 0
    /\ splitter = NoSplit
    /\ \E max_retries \in 0..MaxRetries, backoff \in Backoffs,
          exceptions \in ExceptionTuples :
          retrier = RetryCall(max_retries, DefaultDelay, backoff, exceptions)
    /\ stream = NoStream
    /\ notifier = NoUpdates

RetryNext == \E outcome \in FuncOutcomes : Attempt(outcome)

SpecRetry == RetryInit /\ [][RetryNext]_vars

\* One stream of POST /rag/stream, the search and the model answering at
\* will, the client leaving at any wait and cancel requests coming in.
StreamInit ==
    /\ store = [i \in Ids |-> NoTask]
    /\ docIndex = [d \in Docs |-> {}]
    /\ queue = [i \in Ids |-> 0]
    /\ workers = [w \in Workers |-> IdleWorker]
    /\ lastCallback = NoCallback
    /\ posted = 0
    /\ delivered = 0
    /\ storeUp = TRUE
    /\ endpointUp = TRUE
    /\ producer = NoRequest
    /\ creates = 0
    /\ crashes = 0
    /\ inbound = 0
    /\ splitter = NoSplit
    /\ retrier = NoRetry
    /\ stream = StreamCall
    /\ notifier = NoUpdates

StreamNext ==
    \/ StreamStart
    \/ \E outcome \in SearchOutcomes : StreamSearch(outcome)
    \/ StreamNoResults
    \/ \E outcome \in LlmOutcomes : StreamGenerate(outcome)
    \/ ClientDisconnected
    \/ CancelStreaming

SpecStream == StreamInit /\ [][StreamNext]_vars

\* update_task_status called by the invocations that hold one job, the
\* store failing at will.
NotifyInit ==
    /\ store = [i \in Ids |-> NoTask]
    /\ docIndex = [d \in Docs |-> {}]
    /\ queue = [i \in Ids |-> 0]
    /\ workers = [w \in Workers |-> IdleWorker]
    /\ lastCallback = NoCallback
    /\ posted = 0
    /\ delivered = 0
    /\ storeUp = TRUE
    /\ endpointUp = TRUE
    /\ producer = NoRequest
    /\ creates = 0
    /\ crashes = 0
    /\ inbound = 0
    /\ splitter = NoSplit
    /\ retrier = NoRetry
    /\ stream = NoStream
    /\ \E terminals \in [Callers -> Terminal] : notifier = UpdateCalls(terminals)

NotifyNext ==
    \/ \E c \in Callers : UpdateSet(c)
    \/ \E c \in Callers : UpdatePost(c)
    \/ UpdateStoreFlips

SpecNotify == NotifyInit /\ [][NotifyNext]_vars


\* ------------------------------------------------------------------ claims
IdOf(w) == workers[w].id

\* The record of a job as a reader of the store sees it after the step.
Persisted(id) == store'[id]

\* Worker w takes the step that ends its handler.
Returns(w) == workers[w].pc \notin {"idle", "returned"} /\ workers'[w].pc = "returned"

\* Worker w takes a step in which the capability raised.
Raises(w) ==
    /\ Len(workers'[w].calls) = Len(workers[w].calls) + 1
    /\ ~workers'[w].calls[Len(workers'[w].calls)].ok

\* The step is not a creation request: a request that builds an id already
\* in the store replaces the record by the one of a new job.
SameJobs == creates' = creates

\* C1: once the persisted state of a job is completed or failed, no later
\* read of its record shows pending or processing.
C1_StateNeverRegresses ==
    [][\A id \in Ids :
          (/\ SameJobs
           /\ store[id] # NoTask
           /\ store[id].status \in Terminal
           /\ store'[id] # NoTask)
          => store'[id].status \in Terminal]_vars

\* C2: an invocation of the executor on a job whose persisted state was
\* already terminal when it was loaded is a no-op: no step of the invocation
\* changes the persisted state, result or error.  (Stated for jobs no
\* inbound callback has touched: the executor alone made the job terminal.)
C2_TerminalRedeliveryIsNoOp ==
    [][\A w \in Workers :
          (/\ inbound = 0
           /\ workers[w].pc # "idle"
           /\ workers[w].pre # NoTask
           /\ workers[w].pre.status \in Terminal
           /\ workers'[w] # workers[w]
           /\ store[IdOf(w)] # NoTask)
          => /\ store'[IdOf(w)] # NoTask
             /\ store'[IdOf(w)].status = store[IdOf(w)].status
             /\ store'[IdOf(w)].result = store[IdOf(w)].result
             /\ store'[IdOf(w)].error = store[IdOf(w)].error]_vars

\* C3: every invocation of the executor that found the job record ends with
\* the persisted state of the job terminal (completed or failed), whatever
\* the capabilities did.
C3_InvocationEndsTerminal ==
    [][\A w \in Workers :
          Returns(w)
          => /\ Persisted(IdOf(w)) # NoTask
             /\ Persisted(IdOf(w)).status \in Terminal]_vars

\* An invocation returned after a capability raised and the record is terminal.
C3_Witness ==
    \E w \in Workers :
        /\ workers[w].pc = "returned"
        /\ workers[w].task # NoTask
        /\ Len(workers[w].calls) > 0
        /\ ~workers[w].calls[Len(workers[w].calls)].ok
        /\ store[IdOf(w)] # NoTask
        /\ store[IdOf(w)].status \in Terminal

\* C4: the executor performs the transition to running once per job: when
\* the loaded job is already running (a re-delivery) the running write is
\* skipped and no second running notification is posted.  (Stated for jobs
\* no inbound callback has touched: an earlier delivery made the job running.)
C4_RunningWrittenOnce ==
    [][\A w \in Workers :
          (/\ inbound = 0
           /\ workers[w].pc = "loaded"
           /\ workers[w].task.status = "processing"
           /\ workers'[w].pc = "validate")
          => (store' = store /\ posted' = posted)]_vars

\* C5: a full_pipeline job whose parse and chunk stages succeeded and whose
\* embed stage raises ends completed, with chunk_status "completed" and
\* vector_status "failed" in its result.
C5_EmbedFailureStillCompletes ==
    [][\A w \in Workers :
          (/\ workers[w].pc = "embed"
           /\ workers[w].task.type = "process_complete"
           /\ Returns(w)
           /\ Raises(w))
          => /\ Persisted(IdOf(w)).status = "completed"
             /\ Persisted(IdOf(w)).result.chunk_status = "completed"
             /\ Persisted(IdOf(w)).result.vector_status = "failed"]_vars

PipelineOrder == <<"parse", "chunk", "embed">>

\* C6: in a full_pipeline invocation the stages are called in the order
\* parse, chunk, embed, each at most once, and a stage is called only after
\* every earlier stage returned.
C6_StagesInOrder ==
    \A w \in Workers :
        (workers[w].task # NoTask /\ workers[w].task.type = "process_complete")
        => LET calls == workers[w].calls IN
           /\ Len(calls) <= 3
           /\ \A i \in 1..Len(calls) :
                 /\ calls[i].stage = PipelineOrder[i]
                 /\ (i < Len(calls) => calls[i].ok)

\* A full_pipeline invocation that called all three stages.
C6_Witness ==
    \E w \in Workers :
        /\ workers[w].task # NoTask
        /\ workers[w].task.type = "process_complete"
        /\ Len(workers[w].calls) = 3

\* C7: in a full_pipeline job a failure of the parse stage or of the chunk
\* stage ends the job failed, with an error message naming the failing stage.
C7_StageFailureNamesStage ==
    [][\A w \in Workers :
          (/\ workers[w].pc \in {"parse", "chunk"}
           /\ workers[w].task.type = "process_complete"
           /\ Raises(w))
          => /\ workers'[w].pc = "returned"
             /\ Persisted(IdOf(w)).status = "failed"
             /\ StageNamed(Persisted(IdOf(w)).error) = workers[w].pc]_vars

\* C8: when the payload fails the handler's validation, the job goes to
\* failed with the handler's error text and no capability is called in the
\* invocation.
C8_InvalidPayloadFailsWithoutCall ==
    [][\A w \in Workers :
          (/\ workers[w].pc = "validate"
           /\ Invalid(workers[w].impl, workers[w].task.type, workers[w].task.payload)
           /\ workers'[w].pc \notin {"validate", "idle"})
          => /\ workers'[w].pc = "returned"
             /\ workers'[w].ret = "false"
             /\ workers'[w].calls = <<>>
             /\ Persisted(IdOf(w)).status = "failed"
             /\ Persisted(IdOf(w)).error =
                   HandlerPrefix(workers[w].impl, workers[w].task.type)]_vars

\* An invocation that ended on a validation error.
C8_Witness ==
    \E w \in Workers :
        /\ workers[w].pc = "returned"
        /\ workers[w].task # NoTask
        /\ Invalid(workers[w].impl, workers[w].task.type, workers[w].task.payload)
        /\ workers[w].task.status = "failed"
        /\ workers[w].calls = <<>>

\* C9, as claimed: every exception of a capability is caught by the handler,
\* which persists failed with the error text and returns False.
C9_ExceptionAlwaysFails ==
    [][\A w \in Workers :
          Raises(w)
          => /\ workers'[w].pc = "returned"
             /\ workers'[w].ret = "false"
             /\ Persisted(IdOf(w)).status = "failed"
             /\ Persisted(IdOf(w)).error # ""]_vars

\* The embed stage of process_document (tasks.py), whose exception is recorded
\* in the result instead.
TolerantEmbed(w) ==
    /\ workers[w].impl = "tasks"
    /\ workers[w].task.type = "process_complete"
    /\ workers[w].pc = "embed"

\* C9, amended: no exception of a capability escapes a handler.  The handler
\* catches it, persists failed with its error text and returns False; only
\* the embed stage of process_document records it as vector_status "failed",
\* persists completed and returns True.
C9_ExceptionCaught ==
    [][\A w \in Workers :
          Raises(w)
          => /\ workers'[w].pc = "returned"
             /\ IF TolerantEmbed(w)
                THEN /\ workers'[w].ret = "true"
                     /\ Persisted(IdOf(w)).status = "completed"
                     /\ Persisted(IdOf(w)).result.vector_status = "failed"
                ELSE /\ workers'[w].ret = "false"
                     /\ Persisted(IdOf(w)).status = "failed"
                     /\ Persisted(IdOf(w)).error \in
                           {HandlerPrefix(workers[w].impl, workers[w].task.type),
                            "Parse failed", "Chunking failed"}]_vars

\* A vectorize invocation whose embedder raised, ended failed.
C9_Witness ==
    \E w \in Workers :
        /\ workers[w].pc = "returned"
        /\ workers[w].task # NoTask
        /\ workers[w].task.type = "vectorize"
        /\ workers[w].calls = <<[stage |-> "embed", ok |-> FALSE]>>
        /\ workers[w].ret = "false"
        /\ store[IdOf(w)] # NoTask
        /\ store[IdOf(w)].status = "failed"

\* C10: an invocation for a job id that is absent from the store returns
\* False and performs no store write, no callback and no capability call.
C10_AbsentJobNoEffect ==
    [][\A w \in Workers :
          /\ (/\ workers[w].pc = "idle"
              /\ workers'[w].pc # "idle"
              /\ store[workers'[w].id] = NoTask)
             => /\ workers'[w].pc = "returned"
                /\ workers'[w].ret = "false"
                /\ workers'[w].calls = <<>>
                /\ UNCHANGED <<store, docIndex, lastCallback, posted, delivered>>
          /\ (/\ workers[w].pc = "returned"
              /\ workers[w].task = NoTask
              /\ workers'[w] # workers[w])
             => /\ workers'[w].pc = "idle"
                /\ UNCHANGED <<store, docIndex, lastCallback, posted, delivered>>]_vars

\* An invocation that found no record for its job id.
C10_Witness ==
    \E w \in Workers :
        /\ workers[w].pc = "returned"
        /\ workers[w].task = NoTask
        /\ workers[w].ret = "false"
        /\ store[IdOf(w)] = NoTask

\* A record holds a result: Task.result is neither None nor the default {}.
HasResult(task) == task.result.kind \notin {"None", "empty"}

\* C11: in every persisted job record result and error are mutually
\* exclusive: no record has both a non-empty result and a non-empty error.
\* (Stated for records no inbound callback has touched: the executor alone
\* wrote them.)
C11_ResultErrorExclusive ==
    inbound = 0
    => \A id \in Ids :
          store[id] # NoTask => ~(HasResult(store[id]) /\ store[id].error # "")

\* C12: in every persisted job record a non-empty result occurs only when
\* the state is completed and a non-empty error only when the state is
\* failed.  (Stated for records no inbound callback has touched.)
C12_ResultOnlyCompletedErrorOnlyFailed ==
    inbound = 0
    => \A id \in Ids :
          store[id] # NoTask
          => /\ (HasResult(store[id]) => store[id].status = "completed")
             /\ (store[id].error # "" => store[id].status = "failed")

\* C13: started_at is set once: it is assigned on the first transition into
\* running and no later operation on the job (re-delivery, later
\* transitions, inbound callbacks) changes it in the persisted record.
C13_StartedAtSetOnce ==
    [][\A id \in Ids :
          (/\ SameJobs
           /\ store[id] # NoTask
           /\ store[id].started_at # NoStamp
           /\ store'[id] # NoTask)
          => store'[id].started_at = store[id].started_at]_vars

\* C14: completed_at is set once: it is assigned when the job enters a
\* terminal state and no later operation on that job changes it in the
\* persisted record.  (Stated for jobs no inbound callback has touched.)
C14_CompletedAtSetOnce ==
    [][\A id \in Ids :
          (/\ inbound = 0 /\ inbound' = 0
           /\ SameJobs
           /\ store[id] # NoTask
           /\ store[id].completed_at # NoStamp
           /\ store'[id] # NoTask)
          => store'[id].completed_at = store[id].completed_at]_vars

\* C15: every persisted state transition of a job (to running, to completed,
\* to failed) triggers exactly one callback notification, carrying the job's
\* id, document id, new state, kind, result and error.
C15_TransitionNotifiedOnce ==
    [][\A id \in Ids :
          (/\ store'[id] # NoTask
           /\ store'[id] # store[id]
           /\ store'[id].status \in {"processing", "completed", "failed"})
          => /\ posted' = posted + 1
             /\ lastCallback' = CallbackData(store'[id])]_vars

\* A job was written running and then failed, and both writes were notified:
\* the latest notification is the one of the failed record.
C15_Witness ==
    \E id \in Ids :
        /\ store[id] # NoTask
        /\ store[id].status = "failed"
        /\ posted = 2
        /\ lastCallback # NoCallback
        /\ lastCallback.task_id = id
        /\ lastCallback.status = "failed"
        /\ lastCallback.error = store[id].error

\* Worker w takes a step that calls update_task_status.
Updates(w) ==
    /\ workers[w].pc \notin {"idle", "returned"}
    /\ workers'[w].pc # workers[w].pc
    /\ workers'[w].pc \in {"validate", "returned"}
    /\ workers'[w].task # NoTask
    /\ posted' = posted + 1

\* C16: a callback delivery failure changes nothing in the job's persisted
\* state and does not stop the handler: the record is written as the handler
\* updated it, update_task_status reports success, the handler goes on, and
\* the invocation ends with the job in a terminal state.
C16_DeliveryFailureHarmless ==
    [][\A w \in Workers :
          (~endpointUp /\ Updates(w))
          => /\ delivered' = delivered
             /\ Persisted(IdOf(w)) = workers'[w].task
             /\ workers'[w].upd = "true"
             /\ (workers[w].pc = "loaded"
                 => workers'[w].pc = "validate" /\ Persisted(IdOf(w)).status = "processing")
             /\ (workers'[w].pc = "returned"
                 => Persisted(IdOf(w)).status \in Terminal)]_vars

\* An invocation ran to completed although no notification was delivered.
C16_Witness ==
    \E w \in Workers :
        /\ workers[w].pc = "returned"
        /\ workers[w].task # NoTask
        /\ workers[w].ret = "true"
        /\ posted = 2
        /\ delivered = 0
        /\ store[IdOf(w)] # NoTask
        /\ store[IdOf(w)].status = "completed"

\* A handler between the load of the record and its last write.
InProgress(w) == workers[w].pc \in {"loaded", "validate", "parse", "chunk", "embed"}

\* C17: at no time do two executor invocations process the same job id
\* concurrently: no two pool processes are inside a handler for one job id,
\* each holding its own copy of the record to write back.
C17_SingleExecutorPerJob ==
    \A w1, w2 \in Workers :
        (w1 # w2 /\ InProgress(w1) /\ InProgress(w2)) => IdOf(w1) # IdOf(w2)

\* An invocation for job id came to its end: the handler returned, having
\* found no record or having left the job in a terminal state.
Processed(id) ==
    \E w \in Workers :
        /\ workers[w].pc = "returned"
        /\ IdOf(w) = id
        /\ (workers[w].task = NoTask \/ workers[w].task.status \in Terminal)

\* C18: a delivered message is given up by its worker only after the handler
\* returned (the acknowledgment) or by a crash, which puts it back into the
\* queue; so every enqueued job is eventually processed to the end of a
\* handler, whose last write, when the record exists, is a terminal state.
C18_AtLeastOnce ==
    /\ [][\A w \in Workers :
             (workers[w].pc # "idle" /\ workers'[w].pc = "idle")
             => \/ workers[w].pc = "returned"
                \/ queue'[IdOf(w)] = queue[IdOf(w)] + 1]_vars
    /\ \A id \in Ids : (queue[id] > 0) ~> Processed(id)

\* A job whose worker crashed was delivered again and ended failed.
C18_Witness ==
    \E w \in Workers :
        /\ crashes = 1
        /\ workers[w].pc = "returned"
        /\ workers[w].task # NoTask
        /\ workers[w].pre.status = "processing"
        /\ store[IdOf(w)] # NoTask
        /\ store[IdOf(w)].status \in Terminal

\* C19: every job created by the producer gets an id different from the ids
\* of the jobs already in the store, so a creation request never overwrites
\* the record of another job.  (Stated for a job that was created completely
\* and waits in the queue.)
C19_CreationNeverOverwrites ==
    [][\A id \in Ids :
          (creates' = creates + 1 /\ store[id] # NoTask /\ queue[id] > 0)
          => store'[id] = store[id]]_vars

\* C20: job creation updates the document index atomically with the job
\* record: no state a reader can observe, and no state a crash between the
\* producer's steps leaves behind, has a stored job record whose id is
\* missing from the index set of its document_id.  (Stated for the time
\* before any sweep or handler could have touched the record: the job has not
\* been enqueued yet.)
C20_RecordAlwaysIndexed ==
    \A id \in Ids :
        (store[id] # NoTask /\ creates = 1 /\ queue[id] = 0 /\ inbound = 0
           /\ \A w \in Workers : workers[w].pc = "idle")
        => id \in docIndex[store[id].document_id]

\* The reading of the wall clock of a host zone hours east of UTC at the
\* instant a stored created_at names.  A naive created_at is a reading of
\* that clock.
LocalWall(stamp, zone) ==
    IF stamp.tz = "naive" THEN stamp.wall
    ELSE stamp.wall - UtcOffset(stamp) + zone

\* The sweep deletes the record of job id.
Deleted(id) == store[id] # NoTask /\ store'[id] = NoTask

\* C21: the retention sweeper never deletes a job whose created_at lies
\* within the retention window before the sweep time, for every mix of
\* timestamp forms (naive, Z-suffixed, offset-carrying) among the stored
\* records and whatever the zone of the sweeper's host.
C21_SweepKeepsRecentJobs ==
    [][\A now \in SweepTimes, keys \in ScanOrders, zone \in Offsets :
          CleanupExpiredTasks(now, keys)
          => \A id \in DOMAIN store :
                Deleted(id)
                => LocalWall(store[id].created_at, zone) < now - RetentionHours]_vars

\* C22: whenever the retention sweeper deletes a job record it also removes
\* the id of the job from the set of its document: after the sweep no
\* document set contains the id of a record the sweep deleted.
C22_SweepUnindexesDeleted ==
    [][\A id \in DOMAIN store :
          Deleted(id) => \A d \in DOMAIN docIndex : store[id].id \notin docIndex'[d]]_vars

\* C23: when the store is unreachable or a state write fails, the
\* invocation of the executor returns a negative result: it never returns
\* True for a job whose terminal state was not persisted.
C23_NoSuccessWithoutPersistedState ==
    [][\A w \in Workers :
          (Returns(w) /\ workers'[w].ret = "true")
          => /\ Persisted(IdOf(w)) = workers'[w].task
             /\ Persisted(IdOf(w)).status \in Terminal]_vars

\* C24: a query for a job id returns the stored record or an explicit
\* not-found (None); get_task_from_redis never raises to its caller, for a
\* missing key, a store error or an undecodable record.  (Seen at the head
\* of a handler: the record is loaded as stored, or the handler returns False
\* at once; no exception leaves it.)
C24_QueryNeverRaises ==
    [][\A w \in Workers :
          (workers[w].pc = "idle" /\ workers'[w].pc # "idle")
          => LET id == workers'[w].id IN
             /\ workers'[w].ret # "raised"
             /\ IF storeUp /\ store[id] \notin {NoTask, Garbled}
                THEN workers'[w].pc = "loaded" /\ workers'[w].task = store[id]
                ELSE /\ workers'[w].pc = "returned"
                     /\ workers'[w].task = NoTask
                     /\ workers'[w].ret = "false"]_vars

\* A handler asked for a job whose key holds an undecodable value and got
\* None.
C24_Witness ==
    \E w \in Workers :
        /\ workers[w].pc = "returned"
        /\ workers[w].task = NoTask
        /\ workers[w].ret = "false"
        /\ storeUp
        /\ store[IdOf(w)] = Garbled

\* The values of parse_status, chunk_status and vector_status.
StageStatus == {"pending", "completed", "failed", "skipped"}

\* C25: in every persisted full_pipeline result parse_status, chunk_status
\* and vector_status each take a value in {pending, completed, failed,
\* skipped}, and when all three stages succeeded all three are "completed".
C25_StageStatusValues ==
    /\ \A id \in Ids :
          (store[id] # NoTask /\ store[id].result.kind = "pipeline")
          => /\ store[id].result.parse_status \in StageStatus
             /\ store[id].result.chunk_status \in StageStatus
             /\ store[id].result.vector_status \in StageStatus
    /\ \A w \in Workers :
          (/\ workers[w].pc = "returned"
           /\ workers[w].task # NoTask
           /\ workers[w].task.type = "process_complete"
           /\ Len(workers[w].calls) = 3
           /\ \A i \in 1..3 : workers[w].calls[i].ok)
          => /\ workers[w].task.result.parse_status = "completed"
             /\ workers[w].task.result.chunk_status = "completed"
             /\ workers[w].task.result.vector_status = "completed"

\* The fields of a job record that are fixed at creation.
CreationFields ==
    {"id", "type", "document_id", "payload", "created_at", "attempts", "max_retries"}

\* C26: no operation on an existing job (a state update by the executor, a
\* re-delivery, an inbound callback) changes the payload, id, kind,
\* document_id, created_at, attempts or max_retries of the job: only state,
\* result, error and the timestamps of the update are written.
C26_CreationFieldsImmutable ==
    [][\A id \in Ids :
          (SameJobs /\ store[id] # NoTask /\ store'[id] # NoTask)
          => \A f \in CreationFields : store'[id][f] = store[id][f]]_vars

\* C27: for any text, strategy and number of chunks the strategy produced, the
\* chunks split returns carry the indices 0, 1, ..., n-1 in list order, and
\* the chunk_index of each chunk's metadata equals its index.
C27_DenseIndices ==
    splitter.pc = "done"
    => \A i \in 1..Len(splitter.chunks) :
          /\ splitter.chunks[i].index = i - 1
          /\ splitter.chunks[i].metadata.chunk_index = splitter.chunks[i].index

\* A call whose first chunk was dropped by the post-processing and that
\* returned two chunks or more, all of them produced under another index.
C27_Witness ==
    /\ splitter.pc = "done"
    /\ Len(splitter.chunks) >= 2
    /\ Len(splitter.raw) > Len(splitter.chunks)
    /\ Len(splitter.raw[1].text) < MinChunkLengthToEmbed

\* C28: for any text and the sentence and length strategies, every chunk
\* split returns except the last one has a size of chunk_size at most, the
\* size being the number of characters of the chunk.
C28_ChunkSizeBound ==
    (splitter.pc = "done" /\ splitter.split_type \in {"sentence", "length"})
    => \A i \in 1..(Len(splitter.chunks) - 1) :
          Len(splitter.chunks[i].text) <= splitter.config.chunk_size

\* The text without its white space.
Squeeze(text) == LET Inked(c) == c \notin Spaces IN SelectSeq(text, Inked)

\* The chunks put together in index order, cut[i] characters being removed
\* from the head of chunk i, none from the first one.
Reassembled(chunks, cut) ==
    Concat([i \in 1..Len(chunks) |->
               IF i = 1 THEN chunks[i].text
               ELSE Slice(chunks[i].text, cut[i], Len(chunks[i].text))])

\* The chunks reconstruct the text up to white space: for some overlaps of
\* chunk_overlap characters at most between neighbours, removing them leaves
\* the characters of the text.
Reconstructs(chunks, chunk_overlap, text) ==
    \E cut \in [1..Len(chunks) -> 0..chunk_overlap] :
       Squeeze(Reassembled(chunks, cut)) = Squeeze(text)

\* C29: for the length strategy and every valid input (chunk_size > 0,
\* 0 <= chunk_overlap < chunk_size), concatenating the returned chunks in index
\* order and removing the overlap between neighbours reconstructs the original
\* text up to white space trimming: no part of the text is lost.
C29_LengthReconstructs ==
    (/\ splitter.pc = "done"
     /\ splitter.split_type = "length"
     /\ splitter.config.chunk_size > 0
     /\ splitter.config.chunk_overlap >= 0
     /\ splitter.config.chunk_overlap < splitter.config.chunk_size)
    => Reconstructs(splitter.chunks, splitter.config.chunk_overlap, splitter.text)

\* The paragraphs of a text given by its pieces and separators: the pieces
\* between two blank-line separators, with the separators between them.
RECURSIVE ParagraphsFrom(_, _)
ParagraphsFrom(parts, cur) ==
    IF parts = <<>> THEN <<cur>>
    ELSE IF Head(parts) \in BlankLines
    THEN <<cur>> \o ParagraphsFrom(Tail(parts), <<>>)
    ELSE ParagraphsFrom(Tail(parts), cur \o Head(parts))

Paragraphs(parts) == IF parts = <<>> THEN <<>> ELSE ParagraphsFrom(parts, <<>>)

\* The chunks are the texts of list in order, numbered from 0.
OneChunkEach(chunks, list) ==
    /\ Len(chunks) = Len(list)
    /\ \A i \in 1..Len(list) : chunks[i].text = list[i] /\ chunks[i].index = i - 1

\* The text "A.\n\nB.\n\nC.".
ThreeParagraphs ==
    <<<<"A", ".">>, <<"\n", "\n">>, <<"B", ".">>, <<"\n", "\n">>, <<"C", ".">>>>

\* C30: paragraph splitting of a text with k non-empty paragraphs separated
\* by blank lines returns exactly k chunks, one for each paragraph in order,
\* with the indices 0..k-1; for the text "A.\n\nB.\n\nC." it returns exactly
\* the chunks "A.", "B.", "C." with the indices 0, 1, 2.
C30_OneChunkPerParagraph ==
    (splitter.pc = "done" /\ splitter.split_type = "paragraph")
    => /\ OneChunkEach(splitter.chunks, Paragraphs(splitter.parts))
       /\ splitter.parts = ThreeParagraphs
          => OneChunkEach(splitter.chunks, <<<<"A", ".">>, <<"B", ".">>, <<"C", ".">>>>)

\* A paragraph that the post-processing keeps.
EmbeddableParagraph(p) ==
    Len(p) >= MinChunkLengthToEmbed /\ EstimateChunkQuality(p) >= MinQuality

\* C30, amended: the paragraph strategy makes exactly one chunk for each of
\* the k non-empty paragraphs, in order, with the indices 0..k-1, and split
\* returns those of them that have min_chunk_length_to_embed characters and a
\* quality of 0.2 at least, in order and renumbered from 0; for the text
\* "A.\n\nB.\n\nC." the strategy makes the chunks "A.", "B.", "C." and split
\* returns none of them.
C30_OneChunkPerEmbeddableParagraph ==
    (splitter.pc = "done" /\ splitter.split_type = "paragraph")
    => /\ OneChunkEach(splitter.raw, Paragraphs(splitter.parts))
       /\ OneChunkEach(splitter.chunks,
                       SelectSeq(Paragraphs(splitter.parts), EmbeddableParagraph))
       /\ splitter.parts = ThreeParagraphs
          => /\ OneChunkEach(splitter.raw, <<<<"A", ".">>, <<"B", ".">>, <<"C", ".">>>>)
             /\ splitter.chunks = <<>>

\* A paragraph call on a text of several paragraphs, one of them with a
\* single newline inside, of which split returned some and dropped others.
C30_Witness ==
    /\ splitter.pc = "done"
    /\ splitter.split_type = "paragraph"
    /\ Len(Paragraphs(splitter.parts)) >= 2
    /\ Len(splitter.chunks) >= 1
    /\ Len(splitter.chunks) < Len(splitter.raw)
    /\ \E i \in 1..Len(splitter.parts) : splitter.parts[i] = <<"\n">>

\* C35: for every text and every chunk_size > 0 and 0 <= chunk_overlap <
\* chunk_size, length splitting terminates: every iteration of the window
\* loop moves the window start strictly forwards, so the call returns.
C35_LengthTerminates ==
    (/\ splitter.pc # "none"
     /\ splitter.split_type = "length"
     /\ splitter.config.chunk_size > 0
     /\ splitter.config.chunk_overlap >= 0
     /\ splitter.config.chunk_overlap < splitter.config.chunk_size)
    => splitter.pc # "hung"

\* The texts of chunks are disjoint unions of the original texts: each
\* original text is in exactly one of them, once.
DisjointUnions(chunks, original) ==
    \A k \in 1..Len(original) :
       /\ Cardinality({i \in 1..Len(chunks) :
                          CountIn(chunks[i].text, {ChunkNames[k]}) > 0}) = 1
       /\ \A i \in 1..Len(chunks) : CountIn(chunks[i].text, {ChunkNames[k]}) <= 1

\* C31: when the semantic split yields more than max_chunks chunks,
\* get_optimal_splits returns exactly max_chunks chunks, and every original
\* chunk's text is contained in exactly one returned chunk.
C31_MergeToTarget ==
    (splitter.pc = "returned" /\ Len(splitter.original) > splitter.target)
    => /\ Len(splitter.chunks) = splitter.target
       /\ DisjointUnions(splitter.chunks, splitter.original)

\* C31, amended: when the semantic split yields more than max_chunks chunks
\* (max_chunks >= 1), get_optimal_splits returns exactly max_chunks chunks,
\* and when no embedding call failed every original chunk's text is contained
\* in exactly one returned chunk.
C31_MergeToTargetUnlessFailed ==
    (splitter.pc = "returned" /\ Len(splitter.original) > splitter.target)
    => /\ Len(splitter.chunks) = splitter.target
       /\ ~splitter.failed
          => DisjointUnions(splitter.chunks, splitter.original)

\* A merge of MaxChunks chunks that returned after two iterations or more
\* without a failed embedding call.
C31_Witness ==
    /\ splitter.pc = "returned"
    /\ ~splitter.failed
    /\ splitter.merges >= 2
    /\ Len(splitter.original) = MaxChunks
    /\ Len(splitter.chunks) = splitter.target

\* C32: when an embedding call fails at any point of the merge, before the
\* first merge or after some merges, the operation returns the first
\* max_chunks chunks of the original, unmerged chunk set.
C32_FallbackReturnsOriginal ==
    (splitter.pc = "returned" /\ splitter.failed)
    => splitter.chunks = FirstChunks(splitter.original, splitter.target)

\* C33: a function wrapped by retry(max_retries = n), n >= 1, is called
\* until the first call that does not raise a listed exception and at most n
\* times: every call but the last raised a listed exception, the wrapper
\* returns the value of a returning last call, re-raises the listed exception
\* of the n-th call, and lets an exception outside the listed set leave at
\* the call that raised it; while the loop runs fewer than n calls were made.
Listed(outcome, exceptions) ==
    /\ outcome.kind = "raise"
    /\ outcome.value \in exceptions \/ exceptions = {"Exception"}

C33_RetryContract ==
    (retrier.pc # "none" /\ retrier.max_retries >= 1)
    => LET calls == retrier.calls
           k == Len(calls)
           n == retrier.max_retries
       IN  /\ k <= n
           /\ \A i \in 1..(k - 1) : Listed(calls[i], retrier.exceptions)
           /\ retrier.pc = "loop"
                 => k < n /\ (k > 0 => Listed(calls[k], retrier.exceptions))
           /\ retrier.pc \in {"returned", "raised"}
                 => /\ k >= 1
                    /\ retrier.result = calls[k]
                    /\ retrier.pc = "returned" <=> calls[k].kind = "return"
                    /\ Listed(calls[k], retrier.exceptions) => k = n

\* Two listed failures, then the third call of retry(max_retries = 3)
\* returns; and an exception outside the listed set after a single call.
C33_Witness ==
    /\ retrier.pc = "returned"
    /\ retrier.max_retries = 3
    /\ Len(retrier.calls) = 3
    /\ retrier.exceptions = {"ValueError"}
    /\ retrier.result.kind = "return"

\* The events of the stream emitted once the flag was set and the model's
\* answer was begun (after the "search_results" event).
Position(events, type) ==
    IF \E i \in 1..Len(events) : events[i] = type
    THEN CHOOSE i \in 1..Len(events) :
            events[i] = type /\ \A j \in 1..(i - 1) : events[j] # type
    ELSE 0

\* How many events of a type were emitted.
Emitted(events, type) == CountIn(events, {type})

EventsSince(s) ==
    SubSeq(s.events,
           Max(s.flagged_at, Position(s.events, "search_results")) + 1,
           Len(s.events))

Generating(s) == s.cancelled /\ Position(s.events, "search_results") > 0

C36_SweptStaysDeleted ==
    [][\A w \in Workers :
          LET id == workers[w].id IN
          (/\ workers[w].task # NoTask
           /\ store[id] = NoTask
           /\ workers'[w] # workers[w])
          => store'[id] = NoTask]_vars

\* C37: the mapping between job ids and store keys is one-to-one: no other
\* job id has the key of a stored job, and stripping the "task:" prefix from
\* the key of a stored job (as the sweeper does) gives back its id.
C37_KeysOneToOne ==
    \A a \in DOMAIN store :
       store[a] # NoTask
       => /\ KeyId(TaskKey(a)) = a
          /\ \A b \in Ids \cup DOMAIN store : TaskKey(a) = TaskKey(b) => a = b

\* C38: the two executor implementations are observationally equivalent:
\* two invocations on the same full pipeline job, one by the task functions
\* of tasks.py and one by DocumentProcessor, whose capability calls had the
\* same outcomes, end with the same persisted state, the same stage statuses
\* and the same return value.
C38_ExecutorsEquivalent ==
    \A v, w \in Workers :
       (/\ workers[v].pc = "returned" /\ workers[w].pc = "returned"
        /\ workers[v].impl = "tasks" /\ workers[w].impl = "processor"
        /\ workers[v].id = workers[w].id
        /\ workers[v].task # NoTask /\ workers[w].task # NoTask
        /\ workers[v].task.type = "process_complete"
        /\ workers[v].task.payload = workers[w].task.payload
        /\ workers[v].calls = workers[w].calls)
       => /\ workers[v].task.status = workers[w].task.status
          /\ workers[v].task.result = workers[w].task.result
          /\ workers[v].ret = workers[w].ret

\* Where an update stands in a sequence of updates (0: nowhere).
Place(updates, update) ==
    IF \E i \in 1..Len(updates) : updates[i] = update
    THEN CHOOSE i \in 1..Len(updates) : updates[i] = update
    ELSE 0

\* C39: a callback for a job state is dispatched only after that state was
\* written to the store: every callback sent is the callback of a write that
\* took place, no callback is sent for a write that failed, and the
\* callbacks of the job are sent in the order of its writes.
C39_CallbackAfterWrite ==
    notifier.pc # "none"
    => LET sent == notifier.sent
           writes == notifier.writes
       IN  /\ \A i \in 1..Len(sent) : Place(writes, sent[i]) > 0
           /\ \A update \in notifier.failed : Place(sent, update) = 0
           /\ \A i, j \in 1..Len(sent) :
                 i < j => Place(writes, sent[i]) < Place(writes, sent[j])

\* The record is older than the retention window at a sweep that starts
\* when the wall clock of its host, zone hours east of UTC, reads now.
Expired(task, now, zone) ==
    /\ task # NoTask
    /\ ~Unreadable(task)
    /\ LocalWall(task.created_at, zone) < now - RetentionHours

\* C40: a run of the sweep ends, deletes every record older than the
\* retention window that it scanned, whatever the zone of its host, and
\* leaves a record that is undecodable, has no created_at or a malformed one
\* as it is, going on with the other keys.
C40_SweepDeletesExpired ==
    [][\A now \in SweepTimes, keys \in ScanOrders, zone \in Offsets :
          CleanupExpiredTasks(now, keys)
          => \A id \in DOMAIN store :
                /\ Expired(store[id], now, zone) => store'[id] = NoTask
                /\ (store[id] # NoTask /\ Unreadable(store[id]))
                      => store'[id] = store[id]]_vars

====
